---- MODULE Spec2Model ----
(***************************************************************************)
(* Order-aggregation pipeline of the meama-data-storing servers:           *)
(* the date range calculator (getHistoricalDateRange, getDateRange,        *)
(* validateAndParseDateRange), the paginated fetch with its source filter  *)
(* (processOrdersForStore) and the route that aggregates and answers.      *)
(*                                                                         *)
(* Strings the code inspects character by character (date strings) are     *)
(* sequences of one-character strings.  An instant (a JS Date) is a record *)
(* [nan, day, ms]: day = whole days since 1970-01-01 UTC, ms = millisecond *)
(* of that day; nan marks an Invalid Date.  Date parsing follows the       *)
(* runtime the repository targets (Node.js, V8): in the ISO form the month *)
(* must be 01..12 and the day 01..31, and a day past the end of the month  *)
(* rolls over into the next month (MakeDay).                               *)
(***************************************************************************)
EXTENDS Integers, Sequences, FiniteSets, TLC

VARIABLES
    \* ---- date range calculator: the last call and what it produced
    dateFn,        \* name of the constructor called ("none" before any call)
    dateArg1,      \* first argument (date string)
    dateArg2,      \* second argument (validateAndParseDateRange only)
    dateOut,       \* outcome: a range or a thrown error
    dateIn,        \* Date-valued and numeric arguments: startDate, endDate, now, months, offset
    allDates,      \* the array getAllDatesInRange returned
    dayRanges,     \* the singleDateRange of each date of allDates
    \* ---- one invocation of a route that calls processOrdersForStore
    store,         \* the upstream's orders matching the query, in CREATED_AT order
    sourceFilter,  \* the sourceFilter argument: NULL, "online" or "pos"
    dateRange,     \* the dateRange argument {startDate, endDate}
    fpc,           \* position of the invocation
    cursor,        \* let cursor
    hasNext,       \* let hasNext
    orders,        \* const orders = []
    requestCount,  \* let requestCount
    sentCursor,    \* variables.cursor of the page request last issued
    fetched,       \* every node received so far, in order
    capHit,        \* the loop was left through `if (requestCount > 25) break`
    fetchErr,      \* message of the error thrown out of the fetch ("" if none)
    finalOrders,   \* the value processOrdersForStore returned
    response,      \* what the route sent
    shopConfig,    \* const shopConfig = getShopConfig(shop), with the environment's values
    wire,          \* the invocation's requests as the upstream saw them: how many
                   \* have settled, and the pageInfo of the last page answered
    \* ---- one run of ShopifyClient: the constructor, then fetchYesterdayData
    client,        \* its position, its locals and its requests as the upstream saw them
    \* ---- two invocations of a route, interleaved at their awaits
    inv,           \* per invocation: arguments, position and locals
    \* ---- one multi-day historical sweep
    sweep,         \* its dates, its position and the results collected so far
    \* ---- one call of a metrics, configuration or query function
    libFn,         \* name of the function called ("none" before any call)
    libIn,         \* its arguments
    libOut         \* what it returned

dateVars == <<dateFn, dateArg1, dateArg2, dateOut, dateIn, allDates, dayRanges>>
fetchVars == <<store, sourceFilter, dateRange, fpc, cursor, hasNext, orders,
               requestCount, sentCursor, fetched, capHit, fetchErr, finalOrders,
               response, shopConfig, wire>>
libVars == <<libFn, libIn, libOut>>
clientVars == <<client>>
concVars == <<inv>>
sweepVars == <<sweep>>
vars == <<dateFn, dateArg1, dateArg2, dateOut, dateIn, allDates, dayRanges, store, sourceFilter, dateRange,
          fpc, cursor, hasNext, orders, requestCount, sentCursor, fetched, capHit,
          fetchErr, finalOrders, response, shopConfig, wire, libFn, libIn, libOut,
          client, inv, sweep>>

\* null / undefined / absent: of a string-valued field, and of a date string
NULL == "null"
Undefined == <<"undefined">>

(***************************************************************************)
(* Calendar arithmetic of the JS Date object (ECMAScript DayFromYear,      *)
(* MakeDay, YearFromTime, MonthFromTime, DateFromTime).                    *)
(***************************************************************************)
Digits == {"0", "1", "2", "3", "4", "5", "6", "7", "8", "9"}

DigitVal(c) ==
    CASE c = "0" -> 0 [] c = "1" -> 1 [] c = "2" -> 2 [] c = "3" -> 3
      [] c = "4" -> 4 [] c = "5" -> 5 [] c = "6" -> 6 [] c = "7" -> 7
      [] c = "8" -> 8 [] c = "9" -> 9

DigitChar(n) == <<"0", "1", "2", "3", "4", "5", "6", "7", "8", "9">>[n + 1]

RECURSIVE NumVal(_)
NumVal(s) == IF s = <<>> THEN 0
             ELSE 10 * NumVal(SubSeq(s, 1, Len(s) - 1)) + DigitVal(s[Len(s)])

Pad2(n) == <<DigitChar((n \div 10) % 10), DigitChar(n % 10)>>
Pad3(n) == <<DigitChar((n \div 100) % 10)>> \o Pad2(n % 100)
Pad4(n) == Pad2((n \div 100) % 100) \o Pad2(n % 100)

IsLeap(y) == (y % 4 = 0 /\ y % 100 # 0) \/ y % 400 = 0

DaysInMonth(y, m) ==
    IF m = 2 THEN (IF IsLeap(y) THEN 29 ELSE 28)
    ELSE IF m \in {4, 6, 9, 11} THEN 30 ELSE 31

DayFromYear(y) ==
    365 * (y - 1970) + ((y - 1969) \div 4) - ((y - 1901) \div 100)
        + ((y - 1601) \div 400)

RECURSIVE MonthStart(_, _)
MonthStart(y, m) == IF m <= 1 THEN 0
                    ELSE MonthStart(y, m - 1) + DaysInMonth(y, m - 1)

\* MakeDay(year, month, date): the date may exceed the month, and then runs on.
MakeDay(y, m, d) == DayFromYear(y) + MonthStart(y, m) + d - 1

\* the year of a day number (days 0 .. 2100-12-31)
YearFromDay(day) ==
    CHOOSE y \in (1970 + day \div 366)..(1970 + day \div 365) :
        DayFromYear(y) <= day /\ day < DayFromYear(y + 1)

MonthFromDay(day) ==
    LET y == YearFromDay(day)
        inYear == day - DayFromYear(y)
    IN  CHOOSE m \in 1..12 :
            MonthStart(y, m) <= inYear /\ inYear < MonthStart(y, m) + DaysInMonth(y, m)

DateFromDay(day) ==
    LET y == YearFromDay(day)
    IN  day - DayFromYear(y) - MonthStart(y, MonthFromDay(day)) + 1

(***************************************************************************)
(* Instants.                                                               *)
(***************************************************************************)
EndOfDayMs == 86399999

Instant(day, ms) == [nan |-> FALSE, day |-> day, ms |-> ms]
NaNDate == [nan |-> TRUE, day |-> 0, ms |-> 0]

\* a >= b, a <= b, a > b on Date objects: numeric on the time values, false on NaN
DateLE(a, b) == /\ ~a.nan /\ ~b.nan
                /\ (a.day < b.day \/ (a.day = b.day /\ a.ms <= b.ms))
DateGT(a, b) == /\ ~a.nan /\ ~b.nan
                /\ (a.day > b.day \/ (a.day = b.day /\ a.ms > b.ms))

\* Date.prototype.toISOString(): YYYY-MM-DDTHH:mm:ss.sssZ (years 0..9999)
ISODate(day) ==
    Pad4(YearFromDay(day)) \o <<"-">> \o Pad2(MonthFromDay(day)) \o <<"-">>
        \o Pad2(DateFromDay(day))

ToISOString(t) ==
    ISODate(t.day) \o <<"T">> \o Pad2(t.ms \div 3600000) \o <<":">>
        \o Pad2((t.ms \div 60000) % 60) \o <<":">> \o Pad2((t.ms \div 1000) % 60)
        \o <<".">> \o Pad3(t.ms % 1000) \o <<"Z">>

(***************************************************************************)
(* /^\d{4}-\d{2}-\d{2}$/ : exactly ten characters, no trailing newline     *)
(* allowed (no m flag).                                                    *)
(***************************************************************************)
DateRegexTest(s) ==
    /\ Len(s) = 10
    /\ \A i \in {1, 2, 3, 4, 6, 7, 9, 10} : s[i] \in Digits
    /\ s[5] = "-" /\ s[8] = "-"

\* !date : undefined, null and the empty string are falsy
Falsy(s) == s = Undefined \/ s = <<>>

(***************************************************************************)
(* new Date(date + 'T00:00:00.000Z') and new Date(date + 'T23:59:59.999Z') *)
(* for the time of day ms.  ECMAScript date-time string format: the date   *)
(* is YYYY, YYYY-MM or YYYY-MM-DD (an absent month or day is 01), or the    *)
(* same with the expanded year +YYYYYY.  Every other string of the model's *)
(* inputs is unparseable (NaN).                                            *)
(***************************************************************************)
YearForm(s) == Len(s) = 4 /\ \A i \in 1..4 : s[i] \in Digits

YearMonthForm(s) ==
    /\ Len(s) = 7
    /\ \A i \in {1, 2, 3, 4, 6, 7} : s[i] \in Digits
    /\ s[5] = "-"

ExpandedYearForm(s) ==
    /\ Len(s) = 13
    /\ s[1] = "+"
    /\ \A i \in {2, 3, 4, 5, 6, 7, 9, 10, 12, 13} : s[i] \in Digits
    /\ s[8] = "-" /\ s[11] = "-"

ParseFields(y, m, d, ms) ==
    IF m \in 1..12 /\ d \in 1..31 THEN Instant(MakeDay(y, m, d), ms)
    ELSE NaNDate

NewDate(s, ms) ==
    IF DateRegexTest(s)
    THEN ParseFields(NumVal(SubSeq(s, 1, 4)), NumVal(SubSeq(s, 6, 7)),
                     NumVal(SubSeq(s, 9, 10)), ms)
    ELSE IF ExpandedYearForm(s)
    THEN ParseFields(NumVal(SubSeq(s, 2, 7)), NumVal(SubSeq(s, 9, 10)),
                     NumVal(SubSeq(s, 12, 13)), ms)
    ELSE IF YearMonthForm(s)
    THEN ParseFields(NumVal(SubSeq(s, 1, 4)), NumVal(SubSeq(s, 6, 7)), 1, ms)
    ELSE IF YearForm(s)
    THEN ParseFields(NumVal(s), 1, 1, ms)
    ELSE NaNDate

(***************************************************************************)
(* Outcomes of a range constructor.                                        *)
(***************************************************************************)
RangeOf(s, e) ==
    [kind |-> "range", error |-> "", startDate |-> s, endDate |-> e,
     startISO |-> ToISOString(s), endISO |-> ToISOString(e)]

Thrown(msg) ==
    [kind |-> "error", error |-> msg, startDate |-> NaNDate, endDate |-> NaNDate,
     startISO |-> <<>>, endISO |-> <<>>]

NoOutcome == Thrown("none")

\* the range of one UTC day, as the single-day constructors build it
DayRange(day) == RangeOf(Instant(day, 0), Instant(day, EndOfDayMs))

\* getHistoricalDateRange(date)
GetHistoricalDateRange(date) ==
    IF Falsy(date) \/ ~DateRegexTest(date) THEN Thrown("Invalid date format")
    ELSE LET targetDate == NewDate(date, 0)
             endDate == NewDate(date, EndOfDayMs)
         IN  IF targetDate.nan \/ endDate.nan THEN Thrown("Invalid date values")
             ELSE RangeOf(targetDate, endDate)

\* getDateRange(date): no validation; toISOString throws RangeError on an
\* Invalid Date
GetDateRange(date) ==
    LET targetDate == NewDate(date, 0)
        endDate == NewDate(date, EndOfDayMs)
    IN  IF targetDate.nan \/ endDate.nan THEN Thrown("RangeError: Invalid time value")
        ELSE RangeOf(targetDate, endDate)

\* validateAndParseDateRange(startDateStr, endDateStr)
ValidateAndParseDateRange(startDateStr, endDateStr) ==
    IF Falsy(startDateStr) \/ Falsy(endDateStr)
    THEN Thrown("Both startDate and endDate are required")
    ELSE IF ~DateRegexTest(startDateStr) \/ ~DateRegexTest(endDateStr)
    THEN Thrown("Invalid date format. Use YYYY-MM-DD format")
    ELSE LET startDate == NewDate(startDateStr, 0)
             endDate == NewDate(endDateStr, EndOfDayMs)
         IN  IF startDate.nan \/ endDate.nan THEN Thrown("Invalid date values")
             ELSE IF DateGT(startDate, endDate)
             THEN Thrown("Start date must be before or equal to end date")
             ELSE RangeOf(startDate, endDate)

(***************************************************************************)
(* Inputs of the date range calculator.                                    *)
(***************************************************************************)
YearStrs == {<<"2", "0", "2", "4">>, <<"2", "0", "2", "5">>}
MonthStrs == {<<"0", "0">>, <<"0", "1">>, <<"0", "2">>, <<"0", "3">>,
              <<"1", "2">>, <<"1", "3">>}
DayStrs == {<<"0", "0">>, <<"0", "1">>, <<"2", "8">>, <<"2", "9">>,
            <<"3", "0">>, <<"3", "1">>, <<"3", "2">>}

\* every string of the shape YYYY-MM-DD over the fields above
ShapedDateStrings ==
    {y \o <<"-">> \o m \o <<"-">> \o d : y \in YearStrs, m \in MonthStrs, d \in DayStrs}

\* strings not of that shape whose parse is fixed by the date-time string
\* format: "", "2025-01-01x", "abcd-ef-gh" (unparseable once the time is
\* appended), the expanded year "+002025-01-01", "2025-03" and "2025"
ParseKnownStrings ==
    { <<>>,
      <<"2", "0", "2", "5", "-", "0", "3">>,
      <<"2", "0", "2", "5">>,
      <<"2", "0", "2", "5", "-", "0", "1", "-", "0", "1", "x">>,
      <<"a", "b", "c", "d", "-", "e", "f", "-", "g", "h">>,
      <<"+", "0", "0", "2", "0", "2", "5", "-", "0", "1", "-", "0", "1">> }

\* further strings not of that shape: "2025-1-05", "25-01-01", "2025/01/01",
\* "2025-01-01 " and "2025-01-01\n" (only given to the constructors that test
\* the shape before they parse)
OtherUnshapedStrings ==
    { <<"2", "0", "2", "5", "-", "1", "-", "0", "5">>,
      <<"2", "5", "-", "0", "1", "-", "0", "1">>,
      <<"2", "0", "2", "5", "/", "0", "1", "/", "0", "1">>,
      <<"2", "0", "2", "5", "-", "0", "1", "-", "0", "1", " ">>,
      <<"2", "0", "2", "5", "-", "0", "1", "-", "0", "1", "\n">> }

DateStrings == ShapedDateStrings \cup ParseKnownStrings \cup OtherUnshapedStrings


\* a route's call getDateRange(date) with date = req.params.date
CallGetDateRange ==
    /\ dateFn = "none"
    /\ \E d \in ShapedDateStrings \cup ParseKnownStrings :
        /\ dateFn' = "getDateRange"
        /\ dateArg1' = d /\ dateArg2' = <<>>
        /\ dateOut' = GetDateRange(d)
        /\ UNCHANGED <<dateIn, allDates, dayRanges>>

\* a route's call getHistoricalDateRange(date) with date = req.params.date
CallGetHistoricalDateRange ==
    /\ dateFn = "none"
    /\ \E d \in DateStrings :
        /\ dateFn' = "getHistoricalDateRange"
        /\ dateArg1' = d /\ dateArg2' = <<>>
        /\ dateOut' = GetHistoricalDateRange(d)
        /\ UNCHANGED <<dateIn, allDates, dayRanges>>

\* processAllShopsDateRange's call validateAndParseDateRange(startDateStr, endDateStr)
CallValidateAndParseDateRange ==
    /\ dateFn = "none"
    /\ \E a \in DateStrings \cup {Undefined}, b \in DateStrings \cup {Undefined} :
        /\ dateFn' = "validateAndParseDateRange"
        /\ dateArg1' = a /\ dateArg2' = b
        /\ dateOut' = ValidateAndParseDateRange(a, b)
        /\ UNCHANGED <<dateIn, allDates, dayRanges>>

(***************************************************************************)
(* Enumeration of the days of a range, and the past-months range.          *)
(***************************************************************************)
NoDateIn ==
    [startDate |-> NaNDate, endDate |-> NaNDate, now |-> NaNDate, months |-> 0,
     offset |-> 0]

\* a <= b on strings: by code units, a proper prefix first
CharCode(c) == IF c = "-" THEN 45 ELSE 48 + DigitVal(c)

RECURSIVE StrLE(_, _)
StrLE(a, b) ==
    IF a = <<>> THEN TRUE
    ELSE IF b = <<>> THEN FALSE
    ELSE IF a[1] # b[1] THEN CharCode(a[1]) < CharCode(b[1])
    ELSE StrLE(Tail(a), Tail(b))

\* while (currentStr <= endStr) { dates.push(...); currentStr = next day }
RECURSIVE DatesFromStr(_, _)
DatesFromStr(currentStr, endStr) ==
    IF StrLE(currentStr, endStr)
    THEN LET newDate == NewDate(currentStr, 0)
         IN  <<newDate>> \o DatesFromStr(ISODate(newDate.day + 1), endStr)
    ELSE <<>>

\* a variant of the enumeration that runs one day past the end of the range
GetAllDatesInRangePastEnd(startDate, endDate) ==
    DatesFromStr(ISODate(startDate.day), ISODate(endDate.day + 1))

\* getAllDatesInRange(startDate, endDate) comparing date strings
GetAllDatesInRange(startDate, endDate) ==
    DatesFromStr(ISODate(startDate.day), ISODate(endDate.day))

\* while (currentDate <= endDate) { dates.push(...); currentDate.setUTCDate(+1) }
RECURSIVE DatesFromInstant(_, _)
DatesFromInstant(currentDate, endDate) ==
    IF DateLE(currentDate, endDate)
    THEN <<NewDate(ISODate(currentDate.day), 0)>>
            \o DatesFromInstant(Instant(currentDate.day + 1, currentDate.ms), endDate)
    ELSE <<>>

\* getAllDatesInRange(startDate, endDate) comparing instants
GetAllDatesInRangeByInstant(startDate, endDate) ==
    DatesFromInstant(startDate, endDate)

\* Date.prototype.setUTCMonth(month) on the instant t: the month may lie
\* outside 0..11 and the kept day of month may exceed the target month
SetUTCMonth(t, month) ==
    LET total == YearFromDay(t.day) * 12 + month
    IN  Instant(MakeDay(total \div 12, (total % 12) + 1, DateFromDay(t.day)), t.ms)

\* Date.prototype.setUTCDate(date) on the instant t
SetUTCDate(t, date) ==
    Instant(MakeDay(YearFromDay(t.day), MonthFromDay(t.day), date), t.ms)

\* getPastMonthsDateRange(months), the clock reading now
GetPastMonthsDateRange(now, months) ==
    LET endDate == Instant(SetUTCDate(now, DateFromDay(now.day) - 1).day, EndOfDayMs)
        moved == SetUTCMonth(now, (MonthFromDay(now.day) - 1) - months)
        startDate == Instant(SetUTCDate(moved, 1).day, 0)
    IN  RangeOf(startDate, endDate)

\* Date arguments of getAllDatesInRange: days around the end of a month, at
\* the start, the middle and the last millisecond of the day
EnumInstants ==
    { Instant(d, ms) : d \in MakeDay(2025, 2, 27)..MakeDay(2025, 3, 2),
                       ms \in {0, 43200000, EndOfDayMs} }

\* clock readings: days 29, 30, 31, 1 and 15 of a month
NowInstants ==
    { Instant(d, ms) :
        d \in { MakeDay(2025, 3, 31), MakeDay(2025, 3, 15), MakeDay(2025, 5, 31),
                MakeDay(2025, 1, 1), MakeDay(2024, 3, 30), MakeDay(2025, 1, 29),
                MakeDay(2025, 3, 1) },
        ms \in {0, 43200000, EndOfDayMs} }

\* parseInt(months): the default 3 and other non-negative counts
MonthsArgs == {0, 1, 2, 3, 12, 13}

\* startDate and endDate of GET /historical/date-range
RangeQueryStrings ==
    { s \in ShapedDateStrings :
        SubSeq(s, 1, 4) = <<"2", "0", "2", "5">>
            /\ SubSeq(s, 6, 7) \in {<<"0", "2">>, <<"0", "3">>} }

CallGetAllDatesInRange ==
    /\ dateFn = "none"
    /\ \E a \in EnumInstants, b \in EnumInstants :
        /\ dateFn' = "getAllDatesInRange"
        /\ dateIn' = [NoDateIn EXCEPT !.startDate = a, !.endDate = b]
        /\ allDates' = GetAllDatesInRange(a, b)
        /\ UNCHANGED <<dateArg1, dateArg2, dateOut, dayRanges>>

CallGetAllDatesInRangeByInstant ==
    /\ dateFn = "none"
    /\ \E a \in EnumInstants, b \in EnumInstants :
        /\ dateFn' = "getAllDatesInRangeByInstant"
        /\ dateIn' = [NoDateIn EXCEPT !.startDate = a, !.endDate = b]
        /\ allDates' = GetAllDatesInRangeByInstant(a, b)
        /\ UNCHANGED <<dateArg1, dateArg2, dateOut, dayRanges>>

\* a historical route's call getPastMonthsDateRange(monthsNum)
CallGetPastMonthsDateRange ==
    /\ dateFn = "none"
    /\ \E now \in NowInstants, months \in MonthsArgs :
        /\ dateFn' = "getPastMonthsDateRange"
        /\ dateIn' = [NoDateIn EXCEPT !.now = now, !.months = months]
        /\ dateOut' = GetPastMonthsDateRange(now, months)
        /\ UNCHANGED <<dateArg1, dateArg2, allDates, dayRanges>>

(***************************************************************************)
(* The ranges taken from the clock: today, yesterday, the past calendar    *)
(* month.                                                                  *)
(***************************************************************************)
\* the instant delta milliseconds after t
AddMs(t, delta) ==
    LET total == t.ms + delta
    IN  Instant(t.day + (total \div (EndOfDayMs + 1)), total % (EndOfDayMs + 1))

\* Date.prototype.setHours(h, m, s, ms) on t, given as ms of the local day;
\* offset is local time minus UTC, in milliseconds
SetHours(t, offset, ms) == AddMs(Instant(AddMs(t, offset).day, ms), -offset)

\* Date.prototype.setDate(getDate() - 1) on t: the same local time one local
\* day earlier
SetDateToDayBefore(t, offset) ==
    LET local == AddMs(t, offset)
    IN  AddMs(Instant(local.day - 1, local.ms), -offset)

\* getTodayRange(), the clock reading now
GetTodayRange(now, offset) == RangeOf(SetHours(now, offset, 0), now)

\* getYesterdayRange(), the clock reading now
GetYesterdayRange(now, offset) ==
    LET yesterday == SetHours(SetDateToDayBefore(now, offset), offset, 0)
        endDate == SetHours(yesterday, offset, EndOfDayMs)
    IN  RangeOf(yesterday, endDate)

\* the day of Date.UTC(year, month, date): month counts from 0 and may be 12,
\* date may be 0
DateUTC(year, month, date) ==
    LET total == year * 12 + month
    IN  MakeDay(total \div 12, (total % 12) + 1, date)

\* getPastMonthCompleteRange(), the clock reading now
GetPastMonthCompleteRange(now) ==
    LET currentMonth == MonthFromDay(now.day) - 1
        currentYear == YearFromDay(now.day)
        prevMonth == IF currentMonth = 0 THEN 11 ELSE currentMonth - 1
        prevYear == IF currentMonth = 0 THEN currentYear - 1 ELSE currentYear
        startDate == Instant(DateUTC(prevYear, prevMonth, 1), 0)
        endDate == Instant(DateUTC(prevYear, prevMonth + 1, 0), EndOfDayMs)
    IN  RangeOf(startDate, endDate)

\* getPastMonthIncludingCurrentRange(), the clock reading now
GetPastMonthIncludingCurrentRange(now) ==
    LET currentMonth == MonthFromDay(now.day) - 1
        currentYear == YearFromDay(now.day)
        currentDay == DateFromDay(now.day)
        prevMonth == IF currentMonth = 0 THEN 11 ELSE currentMonth - 1
        prevYear == IF currentMonth = 0 THEN currentYear - 1 ELSE currentYear
        startDate == Instant(DateUTC(prevYear, prevMonth, 1), 0)
        endDate == Instant(DateUTC(currentYear, currentMonth, currentDay - 1), EndOfDayMs)
    IN  RangeOf(startDate, endDate)

\* the time zone of the process, as local time minus UTC in milliseconds:
\* UTC, UTC+4 and UTC-5
TimezoneOffsets == {0, 14400000, 0 - 18000000}

CallGetTodayRange ==
    /\ dateFn = "none"
    /\ \E now \in NowInstants, offset \in TimezoneOffsets :
        /\ dateFn' = "getTodayRange"
        /\ dateIn' = [NoDateIn EXCEPT !.now = now, !.offset = offset]
        /\ dateOut' = GetTodayRange(now, offset)
        /\ UNCHANGED <<dateArg1, dateArg2, allDates, dayRanges>>

CallGetYesterdayRange ==
    /\ dateFn = "none"
    /\ \E now \in NowInstants, offset \in TimezoneOffsets :
        /\ dateFn' = "getYesterdayRange"
        /\ dateIn' = [NoDateIn EXCEPT !.now = now, !.offset = offset]
        /\ dateOut' = GetYesterdayRange(now, offset)
        /\ UNCHANGED <<dateArg1, dateArg2, allDates, dayRanges>>

CallGetPastMonthCompleteRange ==
    /\ dateFn = "none"
    /\ \E now \in NowInstants :
        /\ dateFn' = "getPastMonthCompleteRange"
        /\ dateIn' = [NoDateIn EXCEPT !.now = now]
        /\ dateOut' = GetPastMonthCompleteRange(now)
        /\ UNCHANGED <<dateArg1, dateArg2, allDates, dayRanges>>

CallGetPastMonthIncludingCurrentRange ==
    /\ dateFn = "none"
    /\ \E now \in NowInstants :
        /\ dateFn' = "getPastMonthIncludingCurrentRange"
        /\ dateIn' = [NoDateIn EXCEPT !.now = now]
        /\ dateOut' = GetPastMonthIncludingCurrentRange(now)
        /\ UNCHANGED <<dateArg1, dateArg2, allDates, dayRanges>>

\* the days processAllShopsDateRange works through: the validated range, its
\* dates, and for each date the singleDateRange handed to the fetch
CallProcessAllShopsDateRange ==
    /\ dateFn = "none"
    /\ \E a \in RangeQueryStrings, b \in RangeQueryStrings :
        LET range == ValidateAndParseDateRange(a, b)
            dates == IF range.kind = "range"
                     THEN GetAllDatesInRange(range.startDate, range.endDate)
                     ELSE <<>>
        IN  /\ dateFn' = "processAllShopsDateRange"
            /\ dateArg1' = a /\ dateArg2' = b
            /\ dateOut' = range
            /\ allDates' = dates
            /\ dayRanges' = [i \in 1..Len(dates) |->
                                GetHistoricalDateRange(ISODate(dates[i].day))]
            /\ UNCHANGED dateIn

(***************************************************************************)
(* Orders as the upstream returns them.  Money is in thousandths of the    *)
(* currency unit (parseFloat of the amount string, exact).                 *)
(***************************************************************************)
PageCap == 25
MaxData == 2

FetchDay == MakeDay(2025, 1, 15)

Order(id, createdAt, sourceName, currentTotal, refunded, currencyCode, quantities) ==
    [id |-> id, createdAt |-> createdAt, sourceName |-> sourceName,
     currentTotal |-> currentTotal, refunded |-> refunded,
     currencyCode |-> currencyCode, quantities |-> quantities]

Before == Instant(FetchDay - 1, EndOfDayMs)
AtStart == Instant(FetchDay, 0)
Inside == Instant(FetchDay, 43200000)
AtEnd == Instant(FetchDay, EndOfDayMs)
After == Instant(FetchDay + 1, 0)

\* the orders an upstream may hold, in CREATED_AT order; a list of orders
\* holds their ids (references to the order objects)
Pool ==
    << Order(1, Before, "pos", 10000, 0, "GEL", <<1>>),
       Order(2, AtStart, "POS", 100555, 0, "GEL", <<2>>),
       Order(3, AtStart, "", 8000, 0, "GEL", <<2>>),
       Order(4, Inside, "point_of_sale", 50004, 0, "GEL", <<1, 1>>),
       Order(5, Inside, "Pos", 30000, 0, NULL, <<1>>),
       Order(6, Inside, NULL, 12500, 12500, "GEL", <<>>),
       Order(7, Inside, "web", 19990, 5000, "GEL", <<3>>),
       Order(8, Inside, "kiosk", 990, 0, NULL, <<0, 4>>),
       Order(9, AtEnd, "pos", 2500, 0, "GEL", <<1>>),
       Order(10, AtEnd, "Point_Of_Sale", 4000, 0, "GEL", <<1>>),
       Order(11, After, NULL, 7000, 0, "GEL", <<1>>) >>

OrderIds == 1..Len(Pool)

\* what the upstream holds for the query: at most MaxData orders, sorted
\* (sortKey: CREATED_AT)
Stores ==
    {s \in UNION {[1..n -> OrderIds] : n \in 0..MaxData} :
        \A i \in 1..Len(s), j \in 1..Len(s) : i < j => s[i] < s[j]}

\* a cursor marks how many orders of the result set lie before it
NoCursor == <<>>
CursorAt(pos) == <<pos>>
CursorPos(c) == IF c = NoCursor THEN 0 ELSE c[1]

(***************************************************************************)
(* processOrdersForStore: the defensive re-filter and the source filter.   *)
(***************************************************************************)
CreatedAtStrictlyInRange(order, range) ==
    /\ DateGT(Pool[order].createdAt, range.startDate)
    /\ DateGT(range.endDate, Pool[order].createdAt)

\* orderDate >= startDate && orderDate <= endDate
CreatedAtInRange(order, range) ==
    /\ DateLE(range.startDate, Pool[order].createdAt)
    /\ DateLE(Pool[order].createdAt, range.endDate)

FilterByDate(nodes, range) ==
    LET Keep(o) == CreatedAtInRange(o, range) IN SelectSeq(nodes, Keep)

\* !Pool[order].sourceName
NoSourceName(order) == Pool[order].sourceName = NULL \/ Pool[order].sourceName = ""

IsPosSource(order) ==
    \/ Pool[order].sourceName = "pos"
    \/ Pool[order].sourceName = "point_of_sale"
    \/ Pool[order].sourceName = "POS"

OnlyKnownOnlineSource(order) ==
    \/ Pool[order].sourceName = "web"
    \/ Pool[order].sourceName = "online_store"
    \/ Pool[order].sourceName = "checkout"

IsOnlineSource(order) ==
    \/ Pool[order].sourceName = "web"
    \/ Pool[order].sourceName = "online_store"
    \/ Pool[order].sourceName = "checkout"
    \/ NoSourceName(order)
    \/ (/\ Pool[order].sourceName # "pos"
        /\ Pool[order].sourceName # "point_of_sale"
        /\ Pool[order].sourceName # "POS")

\* if (sourceFilter) { if 'online' ... else if 'pos' ... }
ApplySourceFilter(list, filter) ==
    IF filter = NULL THEN list
    ELSE IF filter = "online" THEN SelectSeq(list, IsOnlineSource)
    ELSE IF filter = "pos" THEN SelectSeq(list, IsPosSource)
    ELSE list

(***************************************************************************)
(* calculateSourceMetrics: the summary of an order list.                   *)
(***************************************************************************)
RECURSIVE SumSeq(_)
SumSeq(s) == IF s = <<>> THEN 0 ELSE s[1] + SumSeq(Tail(s))

\* x.toFixed(2) of an amount in thousandths, as hundredths: half-up on the
\* value of the double, which for the totals listed lies below the decimal tie
ToFixedTiesDown == {121535}

Round2(milli) ==
    IF milli \in ToFixedTiesDown THEN milli \div 10 ELSE (milli + 5) \div 10

\* (total / n).toFixed(2), as hundredths
ToFixedQuotientTiesDown ==
    { <<22490, 2>>, <<23990, 2>>, <<26990, 2>>, <<27990, 2>>, <<29990, 2>>,
      <<30990, 2>>, <<32490, 2>>, <<49990, 2>> }

Round2Quotient(total, n) ==
    IF <<total, n>> \in ToFixedQuotientTiesDown
    THEN total \div (10 * n)
    ELSE (total + 5 * n) \div (10 * n)

RECURSIVE FirstCurrency(_)
FirstCurrency(list) ==
    IF list = <<>> THEN NULL
    ELSE IF Pool[list[1]].currencyCode # NULL THEN Pool[list[1]].currencyCode
    ELSE FirstCurrency(Tail(list))

Summary(list) ==
    LET totalSales == SumSeq([i \in 1..Len(list) |-> Pool[list[i]].currentTotal])
        totalRefunds == SumSeq([i \in 1..Len(list) |-> Pool[list[i]].refunded])
        totalOrders == Len(list)
    IN  [totalSales |-> Round2(totalSales),
         totalOrders |-> totalOrders,
         averageOrderValue |->
             IF totalOrders > 0 THEN Round2Quotient(totalSales, totalOrders) ELSE 0,
         currencyCode |-> FirstCurrency(list),
         totalRefunds |-> Round2(totalRefunds),
         refundedOrders |-> Cardinality({i \in 1..Len(list) : Pool[list[i]].refunded > 0}),
         totalItemsSold |->
             SumSeq([i \in 1..Len(list) |-> SumSeq(Pool[list[i]].quantities)])]

CalculateSourceMetrics(list, sourceName) ==
    [source |-> sourceName, summary |-> Summary(list)]

\* GET /by-source: the fetched orders separated by source, the metrics of
\* each part and the summary of the response
BySource(list) ==
    LET posOrders == SelectSeq(list, IsPosSource)
        onlineOrders == SelectSeq(list, IsOnlineSource)
        posMetrics == CalculateSourceMetrics(posOrders, "Brand Stores")
        onlineMetrics == CalculateSourceMetrics(onlineOrders, "Ecom")
    IN  [brandStores |-> posMetrics,
         ecom |-> onlineMetrics,
         posList |-> posOrders,
         onlineList |-> onlineOrders,
         summary |->
            [totalOrders |-> Len(list),
             posOrders |-> Len(posOrders),
             onlineOrders |-> Len(onlineOrders),
             totalSales |-> posMetrics.summary.totalSales + onlineMetrics.summary.totalSales,
             currencyCode |->
                IF posMetrics.summary.currencyCode # NULL
                THEN posMetrics.summary.currencyCode
                ELSE onlineMetrics.summary.currencyCode]]

\* the label a route gives its metrics
SourceLabel(filter) ==
    IF filter = "online" THEN "Ecom"
    ELSE IF filter = "pos" THEN "Brand Stores" ELSE "General Ecom"

NoResponse ==
    [status |-> 0, message |-> "", from |-> <<>>, to |-> <<>>,
     metrics |-> CalculateSourceMetrics(<<>>, "")]

\* a resolved shop configuration: shop and accessToken hold the values of
\* the environment variables the configuration names, undefined when a
\* variable is not set
NotSet == "(undefined)"

EnvValues(shopSet, tokenSet) ==
    [shop |-> IF shopSet THEN "store.myshopify.com" ELSE NotSet,
     accessToken |-> IF tokenSet THEN "shpat_token" ELSE NotSet]

\* a request reaches the shop's GraphQL endpoint and is authorised only with
\* a host and a token
Usable(config) == config.shop # NotSet /\ config.accessToken # NotSet

\* no request has settled
NoWire == [settled |-> 0, pages |-> 0, hasNextPage |-> FALSE, endCursor |-> NoCursor]

\* a page answered with pageInfo { hasNextPage: hn, endCursor }
Answered(w, hn, endCursor) ==
    [settled |-> w.settled + 1, pages |-> w.pages + 1, hasNextPage |-> hn,
     endCursor |-> endCursor]

\* a request that failed
Failed(w) == [w EXCEPT !.settled = @ + 1]

\* a variant of the result that keeps only the orders created in the day
ClientResultInRange(allOrders) ==
    [orders |-> FilterByDate(allOrders, DayRange(FetchDay)),
     totalOrders |-> Len(FilterByDate(allOrders, DayRange(FetchDay)))]

\* fetchYesterdayData returns the metrics of allOrders: the raw orders and
\* their number
ClientResult(allOrders) == [orders |-> allOrders, totalOrders |-> Len(allOrders)]

\* a ShopifyClient run at position pc: the locals cursor, allOrders and
\* iterations of fetchYesterdayData; the cursor of the request last issued,
\* the number of requests issued and what the upstream answered; how many
\* records the upstream has served; the error thrown and the value returned
ClientAt(pc) ==
    [pc |-> pc, cursor |-> NoCursor, allOrders |-> <<>>, iterations |-> 0,
     sent |-> NoCursor, issued |-> 0, wire |-> NoWire, served |-> 0,
     err |-> "", result |-> ClientResult(<<>>)]

NoClient == ClientAt("idle")

NoInvocations == <<>>

\* one invocation of a route before it runs: the locals of
\* processOrdersForStore and of the route handler (cursor, hasNext, orders,
\* requestCount, the filtered list, the error caught, the answer), the cursor
\* of the request in flight, and what its upstream answered to its requests:
\* how many it settled, how many pages and records it served, the endCursor
\* of its last page
Invocation(st, filter) ==
    [store |-> st, sourceFilter |-> filter, dateRange |-> DayRange(FetchDay),
     pc |-> "start",
     cursor |-> NoCursor, hasNext |-> TRUE, orders |-> <<>>, requestCount |-> 0,
     sentCursor |-> NoCursor, finalOrders |-> <<>>, fetchErr |-> "",
     response |-> NoResponse,
     wire |-> NoWire, served |-> 0]

NoSweep == [pc |-> "idle"]

(***************************************************************************)
(* One invocation of a route: processOrdersForStore, then the metrics and  *)
(* the answer.  A step runs from one await to the next.                    *)
(***************************************************************************)
FetchInit ==
    /\ dateFn = "none" /\ dateArg1 = <<>> /\ dateArg2 = <<>>
    /\ dateOut = NoOutcome
    /\ dateIn = NoDateIn /\ allDates = <<>> /\ dayRanges = <<>>
    /\ store \in Stores
    /\ sourceFilter \in {NULL, "online", "pos"}
    /\ dateRange = DayRange(FetchDay)
    /\ fpc = "start"
    /\ cursor = NoCursor /\ hasNext = TRUE /\ orders = <<>>
    /\ requestCount = 0 /\ sentCursor = NoCursor /\ fetched = <<>>
    /\ capHit = FALSE /\ fetchErr = "" /\ finalOrders = <<>>
    /\ response = NoResponse
    /\ shopConfig = EnvValues(TRUE, TRUE) /\ wire = NoWire
    /\ libFn = "none" /\ libIn = <<>> /\ libOut = <<>>
    /\ client = NoClient /\ inv = NoInvocations /\ sweep = NoSweep

\* the route calls processOrdersForStore, which runs to its first request
StartFetch ==
    /\ fpc = "start"
    /\ cursor' = NoCursor /\ hasNext' = TRUE /\ orders' = <<>>
    /\ requestCount' = 1
    /\ sentCursor' = NoCursor
    /\ fpc' = "awaiting"
    /\ UNCHANGED <<store, sourceFilter, dateRange, fetched, capHit, fetchErr,
                   finalOrders, response, shopConfig, wire>>

\* the response to the request in flight is a page of k orders after the
\* cursor sent, with hasNextPage = hn; the loop body finishes and either the
\* loop goes round (next request) or the function filters by source and returns
PageStep(k, hn) ==
    LET pos == CursorPos(sentCursor)
        nodes == SubSeq(store, pos + 1, pos + k)
        endCursor == CursorAt(pos + k)
        grown == orders \o FilterByDate(nodes, dateRange)
        break == requestCount > PageCap
    IN  /\ fetched' = fetched \o nodes
        /\ orders' = grown
        /\ hasNext' = hn
        /\ cursor' = endCursor
        /\ IF break \/ ~hn
           THEN /\ capHit' = break
                /\ finalOrders' = ApplySourceFilter(grown, sourceFilter)
                /\ fpc' = "returned"
                /\ UNCHANGED <<requestCount, sentCursor>>
           ELSE /\ requestCount' = requestCount + 1
                /\ sentCursor' = endCursor
                /\ fpc' = "awaiting"
                /\ UNCHANGED <<capHit, finalOrders>>
        /\ wire' = Answered(wire, hn, endCursor)
        /\ UNCHANGED <<store, sourceFilter, dateRange, fetchErr, response, shopConfig>>

\* a variant of the page answer that treats the page limit as a failure
RecvOkCapThrows ==
    /\ fpc = "awaiting"
    /\ IF requestCount > PageCap
       THEN /\ fetchErr' = "page limit reached"
            /\ capHit' = TRUE
            /\ fpc' = "threw"
            /\ wire' = Failed(wire)
            /\ UNCHANGED <<store, sourceFilter, dateRange, cursor, hasNext, orders,
                           requestCount, sentCursor, fetched, finalOrders, response,
                           shopConfig>>
       ELSE \E k \in 0..(Len(store) - CursorPos(sentCursor)), hn \in BOOLEAN :
                PageStep(k, hn)

RecvOk ==
    /\ fpc = "awaiting"
    /\ Usable(shopConfig)
    /\ \E k \in 0..(Len(store) - CursorPos(sentCursor)), hn \in BOOLEAN : PageStep(k, hn)

\* makeGraphQLRequest throws: the transport fails, the status is not ok, or
\* the body carries errors
FailureMessages ==
    {"request failed", "HTTP error! status: 500", "GraphQL errors: [...]"}

\* a variant of the failed page request that swallows the failure and hands
\* back what was accumulated so far
RecvFailPartial ==
    /\ fpc = "awaiting"
    /\ \E msg \in FailureMessages : fetchErr' = msg
    /\ finalOrders' = ApplySourceFilter(orders, sourceFilter)
    /\ fpc' = "returned"
    /\ wire' = Failed(wire)
    /\ UNCHANGED <<store, sourceFilter, dateRange, cursor, hasNext, orders,
                   requestCount, sentCursor, fetched, capHit, response, shopConfig>>

RecvFail ==
    /\ fpc = "awaiting"
    /\ \E msg \in FailureMessages : fetchErr' = msg
    /\ fpc' = "threw"
    /\ wire' = Failed(wire)
    /\ UNCHANGED <<store, sourceFilter, dateRange, cursor, hasNext, orders,
                   requestCount, sentCursor, fetched, capHit, finalOrders, response,
                   shopConfig>>

\* const metrics = calculateSourceMetrics(orders, ...); res.json(response)
RouteRespond ==
    /\ fpc = "returned"
    /\ response' =
          [status |-> 200, message |-> "",
           from |-> SubSeq(dateRange.startISO, 1, 10),
           to |-> SubSeq(dateRange.endISO, 1, 10),
           metrics |-> CalculateSourceMetrics(finalOrders, SourceLabel(sourceFilter))]
    /\ fpc' = "done"
    /\ UNCHANGED <<store, sourceFilter, dateRange, cursor, hasNext, orders,
                   requestCount, sentCursor, fetched, capHit, fetchErr, finalOrders,
                   shopConfig, wire>>

\* catch (error) { res.status(500).json({ error, message: error.message }) }
RouteCatch ==
    /\ fpc = "threw"
    /\ response' = [NoResponse EXCEPT !.status = 500, !.message = fetchErr]
    /\ fpc' = "done"
    /\ UNCHANGED <<store, sourceFilter, dateRange, cursor, hasNext, orders,
                   requestCount, sentCursor, fetched, capHit, fetchErr, finalOrders,
                   shopConfig, wire>>

(***************************************************************************)
(* Several invocations of a route in one process.  The process runs one    *)
(* invocation at a time from one await to the next; at an await any other  *)
(* invocation may run.                                                     *)
(***************************************************************************)
\* a variant in which the order list is one array of the module, shared by
\* the invocations
PushOrdersShared(invs, i, filtered) ==
    [j \in DOMAIN invs |-> [invs[j] EXCEPT !.orders = @ \o filtered]]

\* const orders = [] is a local of processOrdersForStore: orders.push(...)
\* reaches the list of the invocation that runs
PushOrders(invs, i, filtered) ==
    [invs EXCEPT ![i].orders = @ \o filtered]

InvStart(i) ==
    /\ inv[i].pc = "start"
    /\ inv' = [inv EXCEPT ![i].cursor = NoCursor, ![i].hasNext = TRUE,
                          ![i].orders = <<>>, ![i].requestCount = 1,
                          ![i].sentCursor = NoCursor, ![i].pc = "awaiting"]

InvPage(i, k, hn) ==
    LET me == inv[i]
        pos == CursorPos(me.sentCursor)
        nodes == SubSeq(me.store, pos + 1, pos + k)
        endCursor == CursorAt(pos + k)
        pushed == PushOrders(inv, i, FilterByDate(nodes, me.dateRange))
        grown == pushed[i].orders
        leave == me.requestCount > PageCap \/ ~hn
    IN  inv' = [pushed EXCEPT
                  ![i].hasNext = hn,
                  ![i].cursor = endCursor,
                  ![i].finalOrders =
                      IF leave THEN ApplySourceFilter(grown, me.sourceFilter) ELSE @,
                  ![i].requestCount = IF leave THEN @ ELSE @ + 1,
                  ![i].sentCursor = IF leave THEN @ ELSE endCursor,
                  ![i].pc = IF leave THEN "returned" ELSE "awaiting",
                  ![i].wire = Answered(@, hn, endCursor),
                  ![i].served = @ + k]

InvRecvOk(i) ==
    /\ inv[i].pc = "awaiting"
    /\ Usable(shopConfig)
    /\ \E k \in 0..(Len(inv[i].store) - CursorPos(inv[i].sentCursor)), hn \in BOOLEAN :
           InvPage(i, k, hn)

InvRecvFail(i) ==
    /\ inv[i].pc = "awaiting"
    /\ \E msg \in FailureMessages :
           inv' = [inv EXCEPT ![i].fetchErr = msg, ![i].pc = "threw",
                              ![i].wire = Failed(@)]

InvRespond(i) ==
    /\ inv[i].pc = "returned"
    /\ inv' = [inv EXCEPT
                 ![i].response =
                     [status |-> 200, message |-> "",
                      from |-> SubSeq(inv[i].dateRange.startISO, 1, 10),
                      to |-> SubSeq(inv[i].dateRange.endISO, 1, 10),
                      metrics |-> CalculateSourceMetrics(inv[i].finalOrders,
                                      SourceLabel(inv[i].sourceFilter))],
                 ![i].pc = "done"]

InvCatch(i) ==
    /\ inv[i].pc = "threw"
    /\ inv' = [inv EXCEPT
                 ![i].response = [NoResponse EXCEPT !.status = 500,
                                                    !.message = inv[i].fetchErr],
                 ![i].pc = "done"]

(***************************************************************************)
(* The multi-day sweeps: processHistoricalDataForDays and                  *)
(* processAllShopsDateRange.  A step runs from one await to the next.      *)
(***************************************************************************)
\* Object.keys(SHOP_CONFIGS), in insertion order
ShopTypes == <<"ecommerce", "vending", "collect", "franchise", "b2b", "brandstores">>

\* shopType.charAt(0).toUpperCase() + shopType.slice(1)
Capitalized(shopType) ==
    CASE shopType = "ecommerce" -> "Ecommerce"
      [] shopType = "vending" -> "Vending"
      [] shopType = "collect" -> "Collect"
      [] shopType = "franchise" -> "Franchise"
      [] shopType = "b2b" -> "B2b"
      [] shopType = "brandstores" -> "Brandstores"
      [] OTHER -> shopType

\* date.toISOString().split('T')[0]
DateStr(date) == SubSeq(ToISOString(date), 1, 10)

\* calculateHistoricalMetrics(orders, sourceName) with metrics.date set; the
\* line items of the Pool carry no SKU of the capsule catalogue
HistoricalMetrics(list, sourceName, dateStr) ==
    [date |-> dateStr, source |-> sourceName,
     summary |-> Summary(list) @@
                 [totalCapsulesSold |-> 0, totalMulticapsulesSold |-> 0,
                  totalEuropeanCapsulesSold |-> 0, totalTeaCapsulesSold |-> 0]]

\* the entry pushed by the catch block of a day
FailedDay(dateStr, sourceName, message) ==
    [date |-> dateStr, source |-> sourceName,
     summary |-> [totalSales |-> 0, totalOrders |-> 0, averageOrderValue |-> 0,
                  currencyCode |-> "GEL", totalRefunds |-> 0, refundedOrders |-> 0,
                  totalItemsSold |-> 0, totalCapsulesSold |-> 0,
                  totalMulticapsulesSold |-> 0, totalEuropeanCapsulesSold |-> 0,
                  totalTeaCapsulesSold |-> 0, error |-> message]]

\* a sweep before it runs: the function, the dates it works through, the
\* shops and the source names of their entries, what the upstream holds and
\* how it fails when it does; the shop and the day at hand, the list of the
\* shop at hand (historicalData, shopData), the lists of the shops finished,
\* and what each day processed so far threw ("" when it threw nothing)
SweepOver(fn, dates, shopTypes, sourceNames, st, failure) ==
    [pc |-> "start", fn |-> fn, dates |-> dates, shopTypes |-> shopTypes,
     sourceNames |-> sourceNames, store |-> st, failure |-> failure,
     s |-> 1, d |-> 1, data |-> <<>>, results |-> <<>>, thrown |-> <<>>]

\* the loop goes on after a day: the next day of the shop, the first day of
\* the next shop, or the return
Advance(sw) ==
    IF sw.d < Len(sw.dates)
    THEN [sw EXCEPT !.d = @ + 1, !.pc = "awaiting"]
    ELSE LET done == [sw EXCEPT !.results = Append(@, sw.data), !.data = <<>>]
         IN  IF sw.s < Len(sw.shopTypes)
             THEN [done EXCEPT !.s = @ + 1, !.d = 1, !.pc = "awaiting"]
             ELSE [done EXCEPT !.pc = "returned"]

\* a variant in which the error of a day leaves the sweep: it returns what
\* it has
CaughtLeavesSweep(sw, message) ==
    [sw EXCEPT !.results = Append(@, sw.data), !.data = <<>>,
               !.thrown = Append(@, message), !.pc = "returned"]

\* catch (error): the entry of the failed day is pushed and the loop goes on
Caught(sw, message) ==
    Advance([sw EXCEPT
               !.data = Append(@, FailedDay(DateStr(sw.dates[sw.d]),
                                            sw.sourceNames[sw.s], message)),
               !.thrown = Append(@, message)])

\* the sweep is called and runs to the fetch of its first day
SweepStart ==
    /\ sweep.pc = "start"
    /\ sweep' = [sweep EXCEPT !.pc = "awaiting"]

\* the fetch of the day resolves: the metrics of its orders are pushed and
\* the sweep waits out the delay
SweepDayDone ==
    /\ sweep.pc = "awaiting"
    /\ LET dateStr == DateStr(sweep.dates[sweep.d])
           range == GetHistoricalDateRange(dateStr)
       IN  /\ range.kind = "range"
           /\ sweep' = [sweep EXCEPT
                          !.data = Append(@, HistoricalMetrics(
                                                 FilterByDate(sweep.store, range),
                                                 sweep.sourceNames[sweep.s], dateStr)),
                          !.thrown = Append(@, ""),
                          !.pc = "delay"]

\* getHistoricalDateRange, processOrdersForStore or calculateHistoricalMetrics
\* throws inside the try of the day
SweepDayThrows ==
    /\ sweep.pc = "awaiting"
    /\ LET range == GetHistoricalDateRange(DateStr(sweep.dates[sweep.d]))
       IN  sweep' = Caught(sweep, IF range.kind = "range" THEN sweep.failure
                                                          ELSE range.error)

\* await new Promise(resolve => setTimeout(resolve, ...)) is over
SweepDelayOver ==
    /\ sweep.pc = "delay"
    /\ sweep' = Advance(sweep)

(***************************************************************************)
(* ShopifyClient: the constructor and fetchYesterdayData.  A step runs     *)
(* from one await to the next.  The upstream serves its records in order   *)
(* and is free in the hasNextPage and endCursor it answers.                *)
(***************************************************************************)
MaxIterations == 100

\* cursor = pageInfo.hasNextPage ? pageInfo.endCursor : null
ClientNextCursorIgnoringHasNext(hn, endCursor) == endCursor

ClientNextCursor(hn, endCursor) == IF hn THEN endCursor ELSE NoCursor

\* a variant of the loop that is never left through the iteration limit
LoopNeverLeft(iterations) == FALSE

\* if (iterations > maxIterations) break
LoopLeft(iterations) == iterations > MaxIterations

\* the endCursor values an upstream holding st may answer: null, or a
\* position in its result set
ClientCursors(st) == {NoCursor} \cup {CursorAt(p) : p \in 0..Len(st)}

\* const client = new ShopifyClient(shopType)
NewShopifyClient ==
    /\ client.pc = "new"
    /\ IF ~Usable(shopConfig)
       THEN client' = [client EXCEPT
                          !.pc = "threw",
                          !.err = "Missing required environment variables for shop type"]
       ELSE client' = [client EXCEPT !.pc = "constructed"]
    /\ UNCHANGED fetchVars

\* client.fetchYesterdayData() up to its first request
FetchYesterdayData ==
    /\ client.pc = "constructed"
    /\ client' = [client EXCEPT !.cursor = NoCursor, !.allOrders = <<>>,
                                !.iterations = 1, !.sent = NoCursor,
                                !.issued = 1, !.pc = "awaiting"]
    /\ UNCHANGED fetchVars

\* the request in flight is answered with a page of the next k records,
\* hasNextPage = hn and endCursor; the loop body finishes, and the loop goes
\* round to the next request or is left and the function returns
ClientPage(k, hn, endCursor) ==
    LET nodes == SubSeq(store, client.served + 1, client.served + k)
        grown == client.allOrders \o nodes
        next == ClientNextCursor(hn, endCursor)
        iterations == client.iterations + 1
        answered == [client EXCEPT !.allOrders = grown, !.cursor = next,
                                   !.served = @ + k,
                                   !.wire = Answered(@, hn, endCursor)]
    IN  IF next = NoCursor
        THEN client' = [answered EXCEPT !.pc = "returned",
                                        !.result = ClientResult(grown)]
        ELSE IF LoopLeft(iterations)
        THEN client' = [answered EXCEPT !.iterations = iterations,
                                        !.pc = "returned",
                                        !.result = ClientResult(grown)]
        ELSE client' = [answered EXCEPT !.iterations = iterations,
                                        !.sent = next, !.issued = @ + 1]

ClientRecvOk ==
    /\ client.pc = "awaiting"
    /\ Usable(shopConfig)
    /\ \E k \in 0..(Len(store) - client.served), hn \in BOOLEAN,
          endCursor \in ClientCursors(store) : ClientPage(k, hn, endCursor)
    /\ UNCHANGED fetchVars

\* this.query throws and fetchYesterdayData rejects
ClientRecvFail ==
    /\ client.pc = "awaiting"
    /\ \E msg \in FailureMessages :
        client' = [client EXCEPT !.pc = "threw", !.err = msg, !.wire = Failed(@)]
    /\ UNCHANGED fetchVars

(***************************************************************************)
(* Metrics.  A JS number that holds money is modelled by its decimal value *)
(* in thousandths; rounding to two decimals gives hundredths.  The double   *)
(* nearest to a decimal tie (x.xx5) may lie below the tie, and then the     *)
(* rounding goes down: the sets *TiesDown list the totals of the model's    *)
(* orders for which IEEE 754 arithmetic does so.                            *)
(***************************************************************************)
\* Math.round(x * 100) / 100
MathRoundTiesDown == {1005, 20995}

MathRound2(milli) ==
    IF milli \in MathRoundTiesDown THEN milli \div 10 ELSE (milli + 5) \div 10

\* a variant of the average that divides by one more than the order count
MathRound2QuotientOffByOne(total, n) == (total + 5 * (n + 1)) \div (10 * (n + 1))

\* Math.round((total / n) * 100) / 100
MathRoundQuotientTiesDown == {<<1005, 1>>}

MathRound2Quotient(total, n) ==
    IF <<total, n>> \in MathRoundQuotientTiesDown
    THEN total \div (10 * n)
    ELSE (total + 5 * n) \div (10 * n)

\* Math.round(((part / whole) * 100) * 100) / 100, in hundredths of a percent
\* (subtotals and unit costs of the model are whole cents)
MathRound2Percent(part, whole) ==
    LET p == part \div 10
        w == whole \div 10
    IN  (2 * p * 10000 + w) \div (2 * w)

\* a line item: item.quantity || 0, variant.product.id, the unit price and
\* unit cost after parseFloat(... || "0"), variant.sku, and whether the
\* product type or the title contains "capsule" or "pod"
LineItem(quantity, productId, unitPrice, unitCost, sku, namedCapsule) ==
    [quantity |-> quantity, productId |-> productId, unitPrice |-> unitPrice,
     unitCost |-> unitCost, sku |-> sku, namedCapsule |-> namedCapsule]

ItemPool ==
    << LineItem(2, "P1", 10000, 4000, "CAP-123", TRUE),
       LineItem(1, "P1", 10000, 4000, "cap-123", TRUE),
       LineItem(3, "P2", 5500, 2250, "EU-10", FALSE),
       LineItem(0, "P3", 7000, 0, NULL, FALSE),
       LineItem(1, NULL, 3000, 1000, "NOPE-1", TRUE),
       LineItem(2, "P4", 1250, 500, "TEA-5", FALSE),
       LineItem(1, "B01", 1000, 500, "NF-1", FALSE),
       LineItem(2, "B02", 2000, 500, "ACC-1", FALSE),
       LineItem(3, "B03", 3000, 500, "", FALSE),
       LineItem(1, "B04", 1250, 500, "", FALSE),
       LineItem(2, "B05", 2250, 500, "", FALSE),
       LineItem(3, "B06", 3250, 500, "", FALSE),
       LineItem(1, "B07", 1500, 500, "", FALSE),
       LineItem(2, "B08", 2500, 500, "", FALSE),
       LineItem(3, "B09", 3500, 500, "", FALSE),
       LineItem(1, "B10", 1750, 500, "", FALSE),
       LineItem(2, "B11", 2750, 500, "", FALSE) >>

\* an order: its money amounts after parseFloat(... || "0"), whether
\* subtotalPriceSet is present (an absent one parses as 0), and
\* lineItems.nodes as indices into ItemPool (<<>> also for no lineItems)
MetricOrder(originalTotal, currentTotal, subtotalPresent, subtotal, refunded, discounts, tax, shipping, items) ==
    [originalTotal |-> originalTotal, currentTotal |-> currentTotal,
     subtotalPresent |-> subtotalPresent, subtotal |-> subtotal,
     refunded |-> refunded, discounts |-> discounts, tax |-> tax,
     shipping |-> shipping, items |-> items]

MetricPool ==
    << MetricOrder(120550, 100555, TRUE, 110000, 0, 9450, 15000, 5000, <<1, 2>>),
       MetricOrder(57500, 50004, TRUE, 50000, 0, 0, 7500, 0, <<3, 6>>),
       MetricOrder(2005, 1005, TRUE, 1000, 1000, 0, 0, 0, <<4, 5>>),
       MetricOrder(20004, 20004, FALSE, 0, 0, 0, 0, 0, <<>>),
       MetricOrder(22990, 19990, TRUE, 19990, 0, 0, 3000, 0,
                   <<7, 8, 9, 10, 11, 12, 13, 14, 15, 16, 17>>) >>

MaxOrders == 2

\* the arrays of orders handed to the metrics functions: orders of MetricPool
\* by index
OrderLists ==
    { s \in UNION { [1..n -> 1..Len(MetricPool)] : n \in 0..MaxOrders } :
        \A i \in 1..(Len(s) - 1) : s[i] < s[i + 1] }

\* all line items of a list of orders, in the order forEach visits them
RECURSIVE ItemsOf(_)
ItemsOf(list) ==
    IF list = <<>> THEN <<>>
    ELSE MetricPool[list[1]].items \o ItemsOf(Tail(list))

MoneyTotal(list, field) == SumSeq([i \in 1..Len(list) |-> MetricPool[list[i]][field]])

\* calculateDetailedMetrics(orders, startISO, endISO) of utils/metricsCalculator.js
CalculateDetailedMetrics(list, startISO, endISO) ==
    LET items == ItemsOf(list)
        totalSales == MoneyTotal(list, "currentTotal")
        totalOrders == Len(list)
    IN  [totalSales |-> MathRound2(totalSales),
         totalRefunded |-> MathRound2(MoneyTotal(list, "refunded")),
         totalDiscounts |-> MathRound2(MoneyTotal(list, "discounts")),
         totalTax |-> MathRound2(MoneyTotal(list, "tax")),
         totalShipping |-> MathRound2(MoneyTotal(list, "shipping")),
         totalOrders |-> totalOrders,
         averageOrderValue |->
             IF totalOrders > 0 THEN MathRound2Quotient(totalSales, totalOrders) ELSE 0,
         totalUnitsSold |->
             SumSeq([i \in 1..Len(items) |-> ItemPool[items[i]].quantity]),
         totalCapsulesSold |->
             SumSeq([i \in 1..Len(items) |->
                        IF ItemPool[items[i]].namedCapsule
                        THEN ItemPool[items[i]].quantity ELSE 0]),
         from |-> SubSeq(startISO, 1, 10),
         to |-> SubSeq(endISO, 1, 10)]

\* ShopifyClient.calculateDetailedMetrics: the same with gross sales, cost of
\* goods and gross profit
ClientCalculateDetailedMetrics(list, startISO, endISO) ==
    LET items == ItemsOf(list)
        grossSales == MoneyTotal(list, "subtotal")
        totalCOGS == SumSeq([i \in 1..Len(items) |->
                        ItemPool[items[i]].unitCost * ItemPool[items[i]].quantity])
        grossProfit == grossSales - totalCOGS
    IN  CalculateDetailedMetrics(list, startISO, endISO) @@
        [grossSales |-> MathRound2(grossSales),
         grossProfit |-> MathRound2(grossProfit),
         grossProfitMargin |->
             IF grossSales > 0 THEN MathRound2Percent(grossProfit, grossSales) ELSE 0,
         totalCOGS |-> MathRound2(totalCOGS)]

\* the accumulators grossSales and totalCOGS of GET /sales-today when its
\* forEach over the orders has finished, in thousandths
SalesTodayGross(list) ==
    LET items == ItemsOf(list)
    IN  [grossSales |-> MoneyTotal(list, "originalTotal") + MoneyTotal(list, "discounts"),
         totalCOGS |-> SumSeq([i \in 1..Len(items) |->
                          ItemPool[items[i]].quantity * ItemPool[items[i]].unitCost])]

(***************************************************************************)
(* Product analysis.                                                       *)
(***************************************************************************)
TopN == 10

\* the entry productMap.set(productId, {...}) creates for a line item
NewAggregate(item) ==
    [productId |-> item.productId,
     sku |-> IF item.sku = NULL THEN "" ELSE item.sku,
     quantity |-> item.quantity,
     totalSales |-> item.quantity * item.unitPrice,
     totalCost |-> item.quantity * item.unitCost,
     unitPrice |-> item.unitPrice,
     unitCost |-> item.unitCost,
     orders |-> 1]

\* a variant of the aggregation that keeps only the first line item of a
\* product
RECURSIVE AggregateFirstOnly(_, _)
AggregateFirstOnly(items, products) ==
    IF items = <<>> THEN products
    ELSE LET item == ItemPool[items[1]]
         IN  IF item.productId = NULL
                  \/ \E i \in 1..Len(products) : products[i].productId = item.productId
             THEN AggregateFirstOnly(Tail(items), products)
             ELSE AggregateFirstOnly(Tail(items), Append(products, NewAggregate(item)))

\* a variant of the aggregation that also keys the line items that have no
\* product id
RECURSIVE AggregateUnidentified(_, _)
AggregateUnidentified(items, products) ==
    IF items = <<>> THEN products
    ELSE LET item == ItemPool[items[1]]
             at == {i \in 1..Len(products) : products[i].productId = item.productId}
         IN  IF at # {}
             THEN LET i == CHOOSE i \in at : TRUE
                  IN  AggregateUnidentified(Tail(items),
                         [products EXCEPT
                            ![i] = [@ EXCEPT
                               !.quantity = @ + item.quantity,
                               !.totalSales = @ + item.quantity * item.unitPrice,
                               !.totalCost = @ + item.quantity * item.unitCost,
                               !.orders = @ + 1]])
             ELSE AggregateUnidentified(Tail(items), Append(products, NewAggregate(item)))

\* the two forEach loops over the line items: the values of productMap, in
\* insertion order
RECURSIVE Aggregate(_, _)
Aggregate(items, products) ==
    IF items = <<>> THEN products
    ELSE LET item == ItemPool[items[1]]
             at == {i \in 1..Len(products) : products[i].productId = item.productId}
         IN  IF item.productId = NULL THEN Aggregate(Tail(items), products)
             ELSE IF at # {}
             THEN LET i == CHOOSE i \in at : TRUE
                  IN  Aggregate(Tail(items),
                         [products EXCEPT
                            ![i] = [@ EXCEPT
                               !.quantity = @ + item.quantity,
                               !.totalSales = @ + item.quantity * item.unitPrice,
                               !.totalCost = @ + item.quantity * item.unitCost,
                               !.orders = @ + 1]])
             ELSE Aggregate(Tail(items), Append(products, NewAggregate(item)))

\* a variant of the sort that leaves the products in insertion order
KeepInsertionOrder(products) == products

\* Array.prototype.sort((a, b) => b.totalSales - a.totalSales): stable,
\* descending by totalSales
RECURSIVE SortByTotalSales(_)
SortByTotalSales(products) ==
    IF products = <<>> THEN <<>>
    ELSE LET n == Len(products)
             last == products[n]
             sorted == SortByTotalSales(SubSeq(products, 1, n - 1))
             k == Cardinality({i \in 1..(n - 1) : sorted[i].totalSales >= last.totalSales})
         IN  SubSeq(sorted, 1, k) \o <<last>> \o SubSeq(sorted, k + 1, n - 1)

\* what the result lists show of a product
Listed(p) ==
    [quantity |-> p.quantity, totalSales |-> Round2(p.totalSales),
     unitPrice |-> Round2(p.unitPrice), orders |-> p.orders, sku |-> p.sku]

Reverse(s) == [i \in 1..Len(s) |-> s[Len(s) + 1 - i]]

\* calculateProductAnalysis(orders); products is its sorted array
CalculateProductAnalysis(list) ==
    LET products == SortByTotalSales(Aggregate(ItemsOf(list), <<>>))
        n == Len(products)
        mostPopular == SubSeq(products, 1, IF n < TopN THEN n ELSE TopN)
        leastPopular == Reverse(SubSeq(products, IF n < TopN THEN 1 ELSE n - TopN + 1, n))
    IN  [products |-> products,
         mostPopular |-> [i \in 1..Len(mostPopular) |-> Listed(mostPopular[i])],
         leastPopular |-> [i \in 1..Len(leastPopular) |-> Listed(leastPopular[i])]]

\* calculateSourceMetrics(orders, sourceName) on orders with line items: the
\* units it counts and the product analysis it attaches
SourceItemsAndProducts(list) ==
    LET items == ItemsOf(list)
    IN  [totalItemsSold |-> SumSeq([i \in 1..Len(items) |-> ItemPool[items[i]].quantity]),
         productAnalysis |-> CalculateProductAnalysis(list)]

(***************************************************************************)
(* Capsule accounting by SKU lookup.                                       *)
(***************************************************************************)
\* the entries of src/data/Capsules.json: SKU, Caps, 'Prod Cat'
CatalogEntry(sku, caps, category) == [SKU |-> sku, Caps |-> caps, ProdCat |-> category]

Capsules ==
    << CatalogEntry("CAP-123", 10, "Multicapsule"),
       CatalogEntry("EU-10", 16, "European"),
       CatalogEntry("TEA-5", 20, "Tea Capsules"),
       CatalogEntry("NF-1", 10, "Multicapsule/ New Flavors"),
       CatalogEntry("ACC-1", 1, "Accessories") >>

\* loadCapsuleSKUs(): the parsed file, or [] when reading it fails
LoadedCatalogs == {Capsules, <<>>}

\* String.prototype.toLowerCase() on the SKUs of the model
ToLowerCase(s) ==
    CASE s = "CAP-123" -> "cap-123"
      [] s = "EU-10" -> "eu-10"
      [] s = "TEA-5" -> "tea-5"
      [] s = "NF-1" -> "nf-1"
      [] s = "ACC-1" -> "acc-1"
      [] s = "NOPE-1" -> "nope-1"
      [] OTHER -> s

\* calculateCapsulesFromSKU(sku), capsuleSKUs being what loadCapsuleSKUs gave
CalculateCapsulesFromSKU(sku, capsuleSKUs) ==
    LET matching == {i \in 1..Len(capsuleSKUs) :
                        ToLowerCase(capsuleSKUs[i].SKU) = ToLowerCase(sku)}
    IN  IF sku = "" \/ matching = {}
        THEN [capsules |-> 0, category |-> "Unknown"]
        ELSE LET first == CHOOSE i \in matching : \A j \in matching : i <= j
             IN  [capsules |-> capsuleSKUs[first].Caps,
                  category |-> capsuleSKUs[first].ProdCat]

\* quantity * capsules of a line item when its category is in the bucket
CapsulesIn(item, capsuleSKUs, bucket) ==
    LET found == CalculateCapsulesFromSKU(IF item.sku = NULL THEN "" ELSE item.sku,
                                          capsuleSKUs)
    IN  IF found.category \in bucket THEN item.quantity * found.capsules ELSE 0

AnyCategory ==
    {"Unknown"} \cup {Capsules[i].ProdCat : i \in 1..Len(Capsules)}

CapsuleTotal(list, capsuleSKUs, bucket) ==
    LET items == ItemsOf(list)
    IN  SumSeq([i \in 1..Len(items) |-> CapsulesIn(ItemPool[items[i]], capsuleSKUs, bucket)])

\* calculateCapsulesSold(orders) of the metrics utilities: no tea subtotal
UtilsCalculateCapsulesSold(list, capsuleSKUs) ==
    [totalCapsules |-> CapsuleTotal(list, capsuleSKUs, AnyCategory),
     totalMulticapsules |->
         CapsuleTotal(list, capsuleSKUs, {"Multicapsule", "Multicapsule/ New Flavors"}),
     totalEuropeanCapsules |-> CapsuleTotal(list, capsuleSKUs, {"European"})]

\* calculateCapsulesSold(orders) of the historical server
CalculateCapsulesSold(list, capsuleSKUs) ==
    UtilsCalculateCapsulesSold(list, capsuleSKUs) @@
    [totalTeaCapsules |-> CapsuleTotal(list, capsuleSKUs, {"Tea", "Tea Capsules"})]

(***************************************************************************)
(* Shop configuration and the order query.                                 *)
(***************************************************************************)
ShopIds == {"ecommerce", "vending", "collect", "franchise", "b2b", "brandstores"}

\* SHOP_CONFIGS: the shop and access token come from the environment (here
\* the name of the variable that provides them); channel is set for
\* brandstores only
SHOP_CONFIGS ==
    [id \in ShopIds |->
        [shop |-> CASE id \in {"ecommerce", "brandstores"} -> "SHOPIFY_SHOP"
                    [] id = "vending" -> "SHOPIFY_VENDING_SHOP"
                    [] id = "collect" -> "SHOPIFY_MEAMA_COLLECT_SHOP"
                    [] id = "franchise" -> "SHOPIFY_MEAMA_FRANCHISE_SHOP"
                    [] OTHER -> "SHOPIFY_MEAMA_B2B_SHOP",
         channel |-> IF id = "brandstores" THEN "Point of Sale" ELSE NULL]]

\* the properties every object literal inherits from Object.prototype
ObjectPrototypeKeys ==
    {"constructor", "toString", "valueOf", "hasOwnProperty", "__proto__"}

\* the value of an inherited property: a function or Object.prototype, with
\* no shop, access token or channel
Inherited(key) == [shop |-> NULL, channel |-> NULL, inherited |-> key]

\* the shopType argument when the caller passes none
OmittedArg == "(omitted)"

\* getShopConfig(shopType = "ecommerce"): SHOP_CONFIGS[shopType] || SHOP_CONFIGS.ecommerce
GetShopConfig(shopTypeArg) ==
    LET shopType == IF shopTypeArg = OmittedArg THEN "ecommerce" ELSE shopTypeArg
    IN  IF shopType \in ShopIds THEN SHOP_CONFIGS[shopType]
        ELSE IF shopType \in ObjectPrototypeKeys THEN Inherited(shopType)
        ELSE SHOP_CONFIGS["ecommerce"]

\* shop ids a caller may pass (req.query.shop)
ShopTypeArgs ==
    ShopIds \cup {OmittedArg, "", "Ecommerce", "wholesale", "constructor",
                  "toString", "__proto__"}

\* a clause of the search query
Clause(text, value) == [text |-> text, value |-> value]

\* buildQueryParts(startISO, endISO, shopType) of the query builder
BuildQueryParts(startISO, endISO, shopTypeArg) ==
    LET qParts == << Clause("created_at:>=", startISO),
                     Clause("created_at:<=", endISO),
                     Clause("-cancelled_status:cancelled", <<>>),
                     Clause("-test:true", <<>>) >>
        resolved == GetShopConfig(shopTypeArg)
    IN  IF resolved.channel # NULL
        THEN Append(qParts, Clause("channel:", resolved.channel))
        ELSE qParts

\* buildOrderQueryString of the query builder: qParts.join(" "), kept as the
\* sequence of its parts
BuildOrderQueryString(startISO, endISO, shopTypeArg) ==
    BuildQueryParts(startISO, endISO, shopTypeArg)

\* buildOrderQueryString of the servers: the four fixed parts
ServerBuildOrderQueryString(startISO, endISO, shopTypeArg) ==
    << Clause("created_at:>=", startISO),
       Clause("created_at:<=", endISO),
       Clause("-cancelled_status:cancelled", <<>>),
       Clause("-test:true", <<>>) >>

\* the ranges a query is built for
QueryRanges == {DayRange(FetchDay), DayRange(FetchDay + 1)}

(***************************************************************************)
(* Calls of the metrics, configuration and query functions.                *)
(***************************************************************************)

CallCalculateDetailedMetrics ==
    /\ libFn = "none"
    /\ \E list \in OrderLists :
        /\ libFn' = "calculateDetailedMetrics"
        /\ libIn' = list
        /\ libOut' = CalculateDetailedMetrics(list, DayRange(FetchDay).startISO, DayRange(FetchDay).endISO)

CallClientCalculateDetailedMetrics ==
    /\ libFn = "none"
    /\ \E list \in OrderLists :
        /\ libFn' = "ShopifyClient.calculateDetailedMetrics"
        /\ libIn' = list
        /\ libOut' = ClientCalculateDetailedMetrics(list, DayRange(FetchDay).startISO, DayRange(FetchDay).endISO)

\* calculateSourceMetrics on orders that carry line items
CallSourceItemsAndProducts ==
    /\ libFn = "none"
    /\ \E list \in OrderLists :
        /\ libFn' = "calculateSourceMetrics.productAnalysis"
        /\ libIn' = list
        /\ libOut' = SourceItemsAndProducts(list)

\* GET /by-source once its fetch loop has finished with the list orders
CallBySource ==
    /\ libFn = "none"
    /\ \E list \in {FilterByDate(st, DayRange(FetchDay)) : st \in Stores} :
        /\ libFn' = "bySource"
        /\ libIn' = list
        /\ libOut' = BySource(list)

\* the first forEach of GET /sales-today over the orders it fetched
CallSalesTodayGross ==
    /\ libFn = "none"
    /\ \E list \in OrderLists :
        /\ libFn' = "salesToday.grossSales"
        /\ libIn' = list
        /\ libOut' = SalesTodayGross(list)

\* calculateSourceMetrics on a list that processOrdersForStore returned
CallCalculateSourceMetrics ==
    /\ libFn = "none"
    /\ \E list \in {FilterByDate(st, DayRange(FetchDay)) : st \in Stores}, label \in {"General Ecom", "Ecom", "Brand Stores"} :
        /\ libFn' = "calculateSourceMetrics"
        /\ libIn' = list
        /\ libOut' = CalculateSourceMetrics(list, label)

CallCalculateProductAnalysis ==
    /\ libFn = "none"
    /\ \E list \in OrderLists :
        /\ libFn' = "calculateProductAnalysis"
        /\ libIn' = list
        /\ libOut' = CalculateProductAnalysis(list)

CallCalculateCapsulesSold ==
    /\ libFn = "none"
    /\ \E list \in OrderLists, capsuleSKUs \in LoadedCatalogs :
        /\ libFn' = "calculateCapsulesSold"
        /\ libIn' = [orders |-> list, capsuleSKUs |-> capsuleSKUs]
        /\ libOut' = CalculateCapsulesSold(list, capsuleSKUs)

CallUtilsCalculateCapsulesSold ==
    /\ libFn = "none"
    /\ \E list \in OrderLists, capsuleSKUs \in LoadedCatalogs :
        /\ libFn' = "utils.calculateCapsulesSold"
        /\ libIn' = [orders |-> list, capsuleSKUs |-> capsuleSKUs]
        /\ libOut' = UtilsCalculateCapsulesSold(list, capsuleSKUs)

CallGetShopConfig ==
    /\ libFn = "none"
    /\ \E shopType \in ShopTypeArgs :
        /\ libFn' = "getShopConfig"
        /\ libIn' = shopType
        /\ libOut' = GetShopConfig(shopType)

CallBuildOrderQueryString ==
    /\ libFn = "none"
    /\ \E range \in QueryRanges, shopType \in ShopTypeArgs :
        /\ libFn' = "buildOrderQueryString"
        /\ libIn' = [startISO |-> range.startISO, endISO |-> range.endISO,
                     shop |-> shopType]
        /\ libOut' = BuildOrderQueryString(range.startISO, range.endISO, shopType)

CallServerBuildOrderQueryString ==
    /\ libFn = "none"
    /\ \E range \in QueryRanges, shopType \in ShopTypeArgs :
        /\ libFn' = "server.buildOrderQueryString"
        /\ libIn' = [startISO |-> range.startISO, endISO |-> range.endISO,
                     shop |-> shopType]
        /\ libOut' = ServerBuildOrderQueryString(range.startISO, range.endISO, shopType)

(***************************************************************************)
(* Specifications.                                                         *)
(***************************************************************************)
\* the date range calculator on its own
DatesInit ==
    /\ dateFn = "none" /\ dateArg1 = <<>> /\ dateArg2 = <<>>
    /\ dateOut = NoOutcome
    /\ dateIn = NoDateIn /\ allDates = <<>> /\ dayRanges = <<>>
    /\ store = <<>> /\ sourceFilter = NULL /\ dateRange = DayRange(FetchDay)
    /\ fpc = "idle"
    /\ cursor = NoCursor /\ hasNext = TRUE /\ orders = <<>>
    /\ requestCount = 0 /\ sentCursor = NoCursor /\ fetched = <<>>
    /\ capHit = FALSE /\ fetchErr = "" /\ finalOrders = <<>>
    /\ response = NoResponse
    /\ shopConfig = EnvValues(TRUE, TRUE) /\ wire = NoWire
    /\ libFn = "none" /\ libIn = <<>> /\ libOut = <<>>
    /\ client = NoClient /\ inv = NoInvocations /\ sweep = NoSweep

DatesNext ==
    \/ CallGetDateRange /\ UNCHANGED <<fetchVars, libVars, clientVars, concVars, sweepVars>>
    \/ CallGetHistoricalDateRange /\ UNCHANGED <<fetchVars, libVars, clientVars, concVars, sweepVars>>
    \/ CallValidateAndParseDateRange /\ UNCHANGED <<fetchVars, libVars, clientVars, concVars, sweepVars>>
    \/ CallGetAllDatesInRange /\ UNCHANGED <<fetchVars, libVars, clientVars, concVars, sweepVars>>
    \/ CallGetAllDatesInRangeByInstant /\ UNCHANGED <<fetchVars, libVars, clientVars, concVars, sweepVars>>
    \/ CallGetPastMonthsDateRange /\ UNCHANGED <<fetchVars, libVars, clientVars, concVars, sweepVars>>
    \/ CallGetTodayRange /\ UNCHANGED <<fetchVars, libVars, clientVars, concVars, sweepVars>>
    \/ CallGetYesterdayRange /\ UNCHANGED <<fetchVars, libVars, clientVars, concVars, sweepVars>>
    \/ CallGetPastMonthCompleteRange /\ UNCHANGED <<fetchVars, libVars, clientVars, concVars, sweepVars>>
    \/ CallGetPastMonthIncludingCurrentRange /\ UNCHANGED <<fetchVars, libVars, clientVars, concVars, sweepVars>>
    \/ CallProcessAllShopsDateRange /\ UNCHANGED <<fetchVars, libVars, clientVars, concVars, sweepVars>>

SpecDates == DatesInit /\ [][DatesNext]_vars

\* one route invocation against an arbitrary upstream
FetchNext ==
    \/ StartFetch /\ UNCHANGED <<dateVars, libVars, clientVars, concVars, sweepVars>>
    \/ RecvOk /\ UNCHANGED <<dateVars, libVars, clientVars, concVars, sweepVars>>
    \/ RecvFail /\ UNCHANGED <<dateVars, libVars, clientVars, concVars, sweepVars>>
    \/ RouteRespond /\ UNCHANGED <<dateVars, libVars, clientVars, concVars, sweepVars>>
    \/ RouteCatch /\ UNCHANGED <<dateVars, libVars, clientVars, concVars, sweepVars>>

SpecFetch == FetchInit /\ [][FetchNext]_vars

\* one call of a metrics, configuration or query function
LibInit ==
    /\ dateFn = "none" /\ dateArg1 = <<>> /\ dateArg2 = <<>>
    /\ dateOut = NoOutcome
    /\ dateIn = NoDateIn /\ allDates = <<>> /\ dayRanges = <<>>
    /\ store = <<>> /\ sourceFilter = NULL /\ dateRange = DayRange(FetchDay)
    /\ fpc = "idle"
    /\ cursor = NoCursor /\ hasNext = TRUE /\ orders = <<>>
    /\ requestCount = 0 /\ sentCursor = NoCursor /\ fetched = <<>>
    /\ capHit = FALSE /\ fetchErr = "" /\ finalOrders = <<>>
    /\ response = NoResponse
    /\ shopConfig = EnvValues(TRUE, TRUE) /\ wire = NoWire
    /\ libFn = "none" /\ libIn = <<>> /\ libOut = <<>>
    /\ client = NoClient /\ inv = NoInvocations /\ sweep = NoSweep

LibNext ==
    \/ CallCalculateDetailedMetrics /\ UNCHANGED <<dateVars, fetchVars, clientVars, concVars, sweepVars>>
    \/ CallClientCalculateDetailedMetrics /\ UNCHANGED <<dateVars, fetchVars, clientVars, concVars, sweepVars>>
    \/ CallSalesTodayGross /\ UNCHANGED <<dateVars, fetchVars, clientVars, concVars, sweepVars>>
    \/ CallBySource /\ UNCHANGED <<dateVars, fetchVars, clientVars, concVars, sweepVars>>
    \/ CallSourceItemsAndProducts /\ UNCHANGED <<dateVars, fetchVars, clientVars, concVars, sweepVars>>
    \/ CallCalculateSourceMetrics /\ UNCHANGED <<dateVars, fetchVars, clientVars, concVars, sweepVars>>
    \/ CallCalculateProductAnalysis /\ UNCHANGED <<dateVars, fetchVars, clientVars, concVars, sweepVars>>
    \/ CallCalculateCapsulesSold /\ UNCHANGED <<dateVars, fetchVars, clientVars, concVars, sweepVars>>
    \/ CallUtilsCalculateCapsulesSold /\ UNCHANGED <<dateVars, fetchVars, clientVars, concVars, sweepVars>>
    \/ CallGetShopConfig /\ UNCHANGED <<dateVars, fetchVars, clientVars, concVars, sweepVars>>
    \/ CallBuildOrderQueryString /\ UNCHANGED <<dateVars, fetchVars, clientVars, concVars, sweepVars>>
    \/ CallServerBuildOrderQueryString /\ UNCHANGED <<dateVars, fetchVars, clientVars, concVars, sweepVars>>

SpecLib == LibInit /\ [][LibNext]_vars

\* one invocation of either fetch path, with the environment set or not:
\* a route that calls processOrdersForStore, or a ShopifyClient run
PagingStores == {<<>>, <<4>>, <<1, 4>>, <<4, 7, 11>>}

PagingInit ==
    /\ dateFn = "none" /\ dateArg1 = <<>> /\ dateArg2 = <<>>
    /\ dateOut = NoOutcome
    /\ dateIn = NoDateIn /\ allDates = <<>> /\ dayRanges = <<>>
    /\ store \in PagingStores
    /\ sourceFilter = NULL
    /\ dateRange = DayRange(FetchDay)
    /\ cursor = NoCursor /\ hasNext = TRUE /\ orders = <<>>
    /\ requestCount = 0 /\ sentCursor = NoCursor /\ fetched = <<>>
    /\ capHit = FALSE /\ fetchErr = "" /\ finalOrders = <<>>
    /\ response = NoResponse
    /\ shopConfig \in {EnvValues(a, b) : a \in BOOLEAN, b \in BOOLEAN}
    /\ wire = NoWire
    /\ \/ fpc = "start" /\ client = NoClient
       \/ fpc = "idle" /\ client = ClientAt("new")
    /\ libFn = "none" /\ libIn = <<>> /\ libOut = <<>>
    /\ inv = NoInvocations /\ sweep = NoSweep

PagingNext ==
    \/ StartFetch /\ UNCHANGED <<dateVars, libVars, clientVars, concVars, sweepVars>>
    \/ RecvOk /\ UNCHANGED <<dateVars, libVars, clientVars, concVars, sweepVars>>
    \/ RecvFail /\ UNCHANGED <<dateVars, libVars, clientVars, concVars, sweepVars>>
    \/ RouteRespond /\ UNCHANGED <<dateVars, libVars, clientVars, concVars, sweepVars>>
    \/ RouteCatch /\ UNCHANGED <<dateVars, libVars, clientVars, concVars, sweepVars>>
    \/ NewShopifyClient /\ UNCHANGED <<dateVars, libVars, concVars, sweepVars>>
    \/ FetchYesterdayData /\ UNCHANGED <<dateVars, libVars, concVars, sweepVars>>
    \/ ClientRecvOk /\ UNCHANGED <<dateVars, libVars, concVars, sweepVars>>
    \/ ClientRecvFail /\ UNCHANGED <<dateVars, libVars, concVars, sweepVars>>

SpecPaging == PagingInit /\ [][PagingNext]_vars

\* a request that was issued settles, and a continuation whose await has
\* settled is run
SpecPagingLive == PagingInit /\ [][PagingNext]_vars /\ WF_vars(PagingNext)

\* two invocations in flight at once, over different stores and filters
ConcurrentPairs ==
    { <<Invocation(<<2, 4>>, "pos"), Invocation(<<7>>, "online")>>,
      <<Invocation(<<11>>, NULL), Invocation(<<>>, "pos")>> }

ConcurrentInit ==
    /\ dateFn = "none" /\ dateArg1 = <<>> /\ dateArg2 = <<>>
    /\ dateOut = NoOutcome
    /\ dateIn = NoDateIn /\ allDates = <<>> /\ dayRanges = <<>>
    /\ store = <<>> /\ sourceFilter = NULL
    /\ dateRange = DayRange(FetchDay)
    /\ fpc = "idle"
    /\ cursor = NoCursor /\ hasNext = TRUE /\ orders = <<>>
    /\ requestCount = 0 /\ sentCursor = NoCursor /\ fetched = <<>>
    /\ capHit = FALSE /\ fetchErr = "" /\ finalOrders = <<>>
    /\ response = NoResponse
    /\ shopConfig = EnvValues(TRUE, TRUE) /\ wire = NoWire
    /\ libFn = "none" /\ libIn = <<>> /\ libOut = <<>>
    /\ client = NoClient /\ sweep = NoSweep
    /\ inv \in ConcurrentPairs

ConcurrentNext ==
    \/ (\E i \in DOMAIN inv : InvStart(i))
          /\ UNCHANGED <<dateVars, fetchVars, libVars, clientVars, sweepVars>>
    \/ (\E i \in DOMAIN inv : InvRecvOk(i))
          /\ UNCHANGED <<dateVars, fetchVars, libVars, clientVars, sweepVars>>
    \/ (\E i \in DOMAIN inv : InvRecvFail(i))
          /\ UNCHANGED <<dateVars, fetchVars, libVars, clientVars, sweepVars>>
    \/ (\E i \in DOMAIN inv : InvRespond(i))
          /\ UNCHANGED <<dateVars, fetchVars, libVars, clientVars, sweepVars>>
    \/ (\E i \in DOMAIN inv : InvCatch(i))
          /\ UNCHANGED <<dateVars, fetchVars, libVars, clientVars, sweepVars>>

SpecConcurrent == ConcurrentInit /\ [][ConcurrentNext]_vars

\* the ranges swept: one to three days around FetchDay
SweepRanges ==
    { <<FetchDay, FetchDay>>, <<FetchDay - 1, FetchDay>>, <<FetchDay - 1, FetchDay + 1>> }

\* /historical/date-range?startDate=..&endDate=..
SweepQueries == { <<FetchDay, FetchDay>>, <<FetchDay - 1, FetchDay>> }

SweepStores == { <<1, 4, 11>>, <<2, 7, 9>> }

\* processHistoricalDataForDays(allDates, shop, null, "General Ecom", requestId)
\* and processAllShopsDateRange(startDateStr, endDateStr, requestId)
Sweeps ==
    { SweepOver("processHistoricalDataForDays",
                GetAllDatesInRange(Instant(r[1], 0), Instant(r[2], EndOfDayMs)),
                <<"ecommerce">>, <<"General Ecom">>, st, msg) :
        r \in SweepRanges, st \in SweepStores, msg \in FailureMessages }
    \cup
    { LET range == ValidateAndParseDateRange(ISODate(q[1]), ISODate(q[2]))
      IN  SweepOver("processAllShopsDateRange",
                    GetAllDatesInRange(range.startDate, range.endDate),
                    ShopTypes, [i \in DOMAIN ShopTypes |-> Capitalized(ShopTypes[i])],
                    st, msg) :
        q \in SweepQueries, st \in {<<1, 4, 11>>}, msg \in {"HTTP error! status: 500"} }

SweepInit ==
    /\ dateFn = "none" /\ dateArg1 = <<>> /\ dateArg2 = <<>>
    /\ dateOut = NoOutcome
    /\ dateIn = NoDateIn /\ allDates = <<>> /\ dayRanges = <<>>
    /\ store = <<>> /\ sourceFilter = NULL
    /\ dateRange = DayRange(FetchDay)
    /\ fpc = "idle"
    /\ cursor = NoCursor /\ hasNext = TRUE /\ orders = <<>>
    /\ requestCount = 0 /\ sentCursor = NoCursor /\ fetched = <<>>
    /\ capHit = FALSE /\ fetchErr = "" /\ finalOrders = <<>>
    /\ response = NoResponse
    /\ shopConfig = EnvValues(TRUE, TRUE) /\ wire = NoWire
    /\ libFn = "none" /\ libIn = <<>> /\ libOut = <<>>
    /\ client = NoClient /\ inv = NoInvocations
    /\ sweep \in Sweeps

SweepNext ==
    \/ SweepStart /\ UNCHANGED <<dateVars, fetchVars, libVars, clientVars, concVars>>
    \/ SweepDayDone /\ UNCHANGED <<dateVars, fetchVars, libVars, clientVars, concVars>>
    \/ SweepDayThrows /\ UNCHANGED <<dateVars, fetchVars, libVars, clientVars, concVars>>
    \/ SweepDelayOver /\ UNCHANGED <<dateVars, fetchVars, libVars, clientVars, concVars>>

SpecSweep == SweepInit /\ [][SweepNext]_vars


(***************************************************************************)
(* Properties of the date range calculator (SpecDates).                    *)
(***************************************************************************)
TimeSuffix(ms) == SubSeq(ToISOString(Instant(0, ms)), 11, 24)

\* a string of the shape YYYY-MM-DD that names a day of the calendar
IsCalendarDate(s) ==
    /\ DateRegexTest(s)
    /\ NumVal(SubSeq(s, 6, 7)) \in 1..12
    /\ NumVal(SubSeq(s, 9, 10))
          \in 1..DaysInMonth(NumVal(SubSeq(s, 1, 4)), NumVal(SubSeq(s, 6, 7)))

\* date a is after date b, field by field
DateStringAfter(a, b) ==
    LET ya == NumVal(SubSeq(a, 1, 4))  yb == NumVal(SubSeq(b, 1, 4))
        ma == NumVal(SubSeq(a, 6, 7))  mb == NumVal(SubSeq(b, 6, 7))
        da == NumVal(SubSeq(a, 9, 10)) db == NumVal(SubSeq(b, 9, 10))
    IN  ya > yb \/ (ya = yb /\ (ma > mb \/ (ma = mb /\ da > db)))

\* C8: a date string that does not match YYYY-MM-DD makes every range
\* constructor fail (here: with an error of whatever message) and yield no
\* range: getHistoricalDateRange, getDateRange, and validateAndParseDateRange
\* for either argument.
C8_UnshapedDateRejected ==
    /\ (/\ dateFn \in {"getHistoricalDateRange", "getDateRange"}
        /\ ~DateRegexTest(dateArg1))
          => dateOut.kind = "error"
    /\ (/\ dateFn = "validateAndParseDateRange"
        /\ dateArg1 # Undefined /\ dateArg2 # Undefined
        /\ (~DateRegexTest(dateArg1) \/ ~DateRegexTest(dateArg2)))
          => dateOut.kind = "error"

\* C9: for an input d of the shape YYYY-MM-DD, a range that
\* getHistoricalDateRange returns starts at d 00:00:00.000 UTC and ends at
\* d 23:59:59.999 UTC, never on another date; and a d that names a calendar
\* day does get its range.
C9_SingleDayOnItsDate ==
    (dateFn = "getHistoricalDateRange" /\ DateRegexTest(dateArg1)) =>
        /\ dateOut.kind = "range" =>
              /\ dateOut.startISO = dateArg1 \o TimeSuffix(0)
              /\ dateOut.endISO = dateArg1 \o TimeSuffix(EndOfDayMs)
        /\ IsCalendarDate(dateArg1) => dateOut.kind = "range"

\* C10: for two inputs of the shape YYYY-MM-DD that pass the validity check,
\* validateAndParseDateRange fails with the invalid-range error when the start
\* date is after the end date, and otherwise (equal dates included) returns
\* the range from the start date 00:00:00.000 UTC to the end date
\* 23:59:59.999 UTC.
C10_ExplicitRange ==
    (/\ dateFn = "validateAndParseDateRange"
     /\ DateRegexTest(dateArg1) /\ DateRegexTest(dateArg2)
     /\ dateOut.error # "Invalid date values") =>
        IF DateStringAfter(dateArg1, dateArg2)
        THEN /\ dateOut.kind = "error"
             /\ dateOut.error = "Start date must be before or equal to end date"
        ELSE /\ dateOut.kind = "range"
             /\ dateOut.startISO = dateArg1 \o TimeSuffix(0)
             /\ dateOut.endISO = dateArg2 \o TimeSuffix(EndOfDayMs)

(***************************************************************************)
(* Properties of the paginated fetch and the source filter (SpecFetch).    *)
(***************************************************************************)
\* the fetch returned its list (it did not throw)
Finished == fpc \in {"returned", "done"} /\ fetchErr = ""

\* the range the fetch was started with
RequestedRange == DayRange(FetchDay)

\* C1: the fetch never issues a 26th page request: with an upstream that
\* keeps answering hasNextPage = true it stops after PageCap = 25 requests
\* and returns what those 25 pages gave.
C1_HaltsAtPageCap ==
    /\ requestCount <= PageCap
    /\ (Finished /\ hasNext) => requestCount = PageCap

\* C2: a failed page request aborts the fetch: no further page request is
\* issued, the request is not retried, no partial list is returned, and the
\* error reaches the caller (the route answers 500 with its message).
C2_FailureAborts ==
    [][fetchErr' # "" =>
          /\ requestCount' = requestCount
          /\ sentCursor' = sentCursor
          /\ orders' = orders
          /\ finalOrders' = <<>>
          /\ fpc' \in {"threw", "done"}
          /\ fetchErr # "" => fetchErr' = fetchErr
          /\ fpc' = "done" =>
                /\ response'.status = 500
                /\ response'.message = fetchErr'
                /\ response'.metrics = NoResponse.metrics]_vars

\* a request failed after an earlier page had contributed records, and the
\* route has answered
C2_Witness ==
    /\ fpc = "done"
    /\ fetchErr # ""
    /\ orders # <<>>
    /\ requestCount > 1
    /\ response.status = 500

\* C3: reaching the page limit is not an error: the records accumulated so
\* far are aggregated and returned as a normal result.
C3_CapIsNotAnError ==
    capHit =>
        /\ fetchErr = ""
        /\ Finished
        /\ finalOrders =
              ApplySourceFilter(FilterByDate(fetched, RequestedRange), sourceFilter)
        /\ fpc = "done" =>
              /\ response.status = 200
              /\ response.metrics =
                    CalculateSourceMetrics(finalOrders, SourceLabel(sourceFilter))

\* the limit was reached while the upstream still had pages, and the route
\* answered with a non-empty partial result
C3_Witness ==
    /\ capHit
    /\ hasNext
    /\ fpc = "done"
    /\ Len(fetched) < Len(store)
    /\ response.status = 200
    /\ response.metrics.summary.totalOrders > 0

StrictlyInside(order) ==
    /\ DateGT(Pool[order].createdAt, RequestedRange.startDate)
    /\ DateGT(RequestedRange.endDate, Pool[order].createdAt)

WithinInclusive(order) ==
    /\ DateLE(RequestedRange.startDate, Pool[order].createdAt)
    /\ DateLE(Pool[order].createdAt, RequestedRange.endDate)

\* C4 as stated: a record is appended exactly when its createdAt is strictly
\* inside the requested range; a record on a boundary is never returned.
C4_StrictRange ==
    /\ dateRange = RequestedRange
    /\ orders = SelectSeq(fetched, StrictlyInside)

\* C4: a record of a page is appended exactly when its createdAt is within
\* the requested range, boundaries included (start <= createdAt <= end); the
\* range is the originally requested one on every page.
C4_InclusiveRange ==
    /\ dateRange = RequestedRange
    /\ orders = SelectSeq(fetched, WithinInclusive)

\* a finished fetch over two pages that kept a record created exactly on a
\* boundary and dropped one outside the range
C4_Witness ==
    /\ fpc = "done"
    /\ requestCount > 1
    /\ \E i \in 1..Len(orders) :
          Pool[orders[i]].createdAt \in {AtStart, AtEnd}
    /\ \E i \in 1..Len(fetched) : ~WithinInclusive(fetched[i])

\* the lower-case form of the source tags of the model
LowerCase(tag) ==
    CASE tag \in {"POS", "Pos"} -> "pos"
      [] tag = "Point_Of_Sale" -> "point_of_sale"
      [] OTHER -> tag

TagIsPos(order) == LowerCase(Pool[order].sourceName) \in {"pos", "point_of_sale"}

Classify(order) == IF TagIsPos(order) THEN "pos" ELSE "online"

HasClass(order) == Classify(order) = sourceFilter

\* C5: a record is point-of-sale exactly when its source tag matches pos or
\* point_of_sale whatever the case of its letters, so the pos filter keeps
\* exactly those records.
C5_PosIgnoresCase ==
    (Finished /\ sourceFilter = "pos") =>
        /\ \A i \in 1..Len(orders) :
              TagIsPos(orders[i]) => \E j \in 1..Len(finalOrders) : finalOrders[j] = orders[i]
        /\ \A j \in 1..Len(finalOrders) : TagIsPos(finalOrders[j])

\* C6: a record with a missing, null or empty source tag is online and never
\* point-of-sale: the online filter keeps every such record and the pos
\* filter keeps none.
C6_UntaggedIsOnline ==
    Finished =>
        /\ sourceFilter = "online" =>
              SelectSeq(finalOrders, NoSourceName) = SelectSeq(orders, NoSourceName)
        /\ sourceFilter = "pos" => SelectSeq(finalOrders, NoSourceName) = <<>>

\* the online route answered for a fetch that had gathered a record with a
\* null tag and one with an empty tag
C6_Witness ==
    /\ fpc = "done"
    /\ sourceFilter = "online"
    /\ response.status = 200
    /\ \E i \in 1..Len(orders) : Pool[orders[i]].sourceName = NULL
    /\ \E i \in 1..Len(orders) : Pool[orders[i]].sourceName = ""

\* C7: the source filter returns exactly the records whose classification is
\* the filter, in their original order; without a filter the list is returned
\* unchanged.
C7_FilterBySource ==
    Finished =>
        finalOrders = IF sourceFilter = NULL
                      THEN orders
                      ELSE SelectSeq(orders, HasClass)

C12_RoundTrip ==
    (dateFn = "processAllShopsDateRange" /\ dateOut.kind = "range") =>
        /\ Len(dayRanges) = Len(allDates)
        /\ Len(allDates) > 0
        /\ \A i \in 1..Len(dayRanges) :
              /\ dayRanges[i].kind = "range"
              /\ DateLE(dateOut.startDate, dayRanges[i].startDate)
              /\ DateLE(dayRanges[i].endDate, dateOut.endDate)

\* an accepted range of several days that runs from one month into the next
C12_Witness ==
    /\ dateFn = "processAllShopsDateRange"
    /\ dateOut.kind = "range"
    /\ Len(dayRanges) >= 3
    /\ MonthFromDay(dayRanges[1].startDate.day)
          # MonthFromDay(dayRanges[Len(dayRanges)].endDate.day)

\* C20: for every clock reading and every n >= 0, getPastMonthsDateRange(n)
\* starts at 00:00:00.000 UTC on day 1 of the month n months before the
\* current UTC month and ends at 23:59:59.999 UTC of yesterday, also when the
\* current day of month does not exist in that month.
C20_PastMonthsRange ==
    dateFn = "getPastMonthsDateRange" =>
        LET now == dateIn.now
            total == YearFromDay(now.day) * 12 + (MonthFromDay(now.day) - 1)
                        - dateIn.months
        IN  /\ dateOut.kind = "range"
            /\ dateOut.startDate = Instant(MakeDay(total \div 12, (total % 12) + 1, 1), 0)
            /\ dateOut.endDate = Instant(now.day - 1, EndOfDayMs)

(***************************************************************************)
(* Properties of the metrics, the configuration and the query (SpecLib).   *)
(***************************************************************************)
DetailedFns == {"calculateDetailedMetrics", "ShopifyClient.calculateDetailedMetrics"}

\* the decimal sum of the current totals of the orders of a call, thousandths
SalesSum ==
    IF libFn = "calculateSourceMetrics"
    THEN SumSeq([i \in 1..Len(libIn) |-> Pool[libIn[i]].currentTotal])
    ELSE MoneyTotal(libIn, "currentTotal")

\* the reported summary of a call
Reported == IF libFn = "calculateSourceMetrics" THEN libOut.summary ELSE libOut

\* C13: on an empty order list every total is zero (sales, refunds,
\* discounts, tax, shipping, COGS, units, capsules, order count) and
\* averageOrderValue and grossProfitMargin are 0; on a non-empty list
\* averageOrderValue is totalSales divided by the number of orders (to the
\* two decimals reported).
C13_EmptyAndAverage ==
    /\ (libFn \in DetailedFns /\ libIn = <<>>) =>
          /\ libOut.totalSales = 0 /\ libOut.totalRefunded = 0
          /\ libOut.totalDiscounts = 0 /\ libOut.totalTax = 0
          /\ libOut.totalShipping = 0 /\ libOut.totalOrders = 0
          /\ libOut.totalUnitsSold = 0 /\ libOut.totalCapsulesSold = 0
          /\ libOut.averageOrderValue = 0
    /\ (libFn = "ShopifyClient.calculateDetailedMetrics" /\ libIn = <<>>) =>
          /\ libOut.totalCOGS = 0 /\ libOut.grossSales = 0
          /\ libOut.grossProfit = 0 /\ libOut.grossProfitMargin = 0
    /\ (libFn = "calculateSourceMetrics" /\ libIn = <<>>) =>
          /\ libOut.summary.totalSales = 0 /\ libOut.summary.totalRefunds = 0
          /\ libOut.summary.totalOrders = 0 /\ libOut.summary.refundedOrders = 0
          /\ libOut.summary.totalItemsSold = 0
          /\ libOut.summary.averageOrderValue = 0
    /\ (libFn \in DetailedFns \cup {"calculateSourceMetrics"} /\ libIn # <<>>) =>
          LET n == Len(libIn)
              diff == 10 * n * Reported.averageOrderValue - SalesSum
          IN  /\ Reported.totalOrders = n
              /\ diff <= 5 * n
              /\ -diff <= 5 * n

\* the full summary of an empty order list
C13_Witness ==
    /\ libFn = "ShopifyClient.calculateDetailedMetrics"
    /\ libIn = <<>>
    /\ libOut.totalOrders = 0
    /\ libOut.grossProfitMargin = 0

\* C14: the reported totalSales is the unrounded sum of the current totals
\* rounded half-up to two decimals, once, when the summary is produced.
C14_RoundedOnceHalfUp ==
    (libFn \in DetailedFns \cup {"calculateSourceMetrics"}) =>
        Reported.totalSales = (SalesSum + 5) \div 10

\* the line items of a call's orders that carry the product id
OccurrencesOf(productId) ==
    LET items == ItemsOf(libIn)
    IN  {i \in 1..Len(items) : ItemPool[items[i]].productId = productId}

SumOver(indices, value(_)) ==
    LET items == ItemsOf(libIn)
    IN  SumSeq([i \in 1..Len(items) |-> IF i \in indices THEN value(ItemPool[items[i]]) ELSE 0])

ItemQuantity(item) == item.quantity

ItemSales(item) == item.quantity * item.unitPrice

\* C15: the product analysis holds exactly one aggregate per distinct
\* productId; its quantity is the sum of the quantities of the line items
\* with that id over all orders, its totalSales the sum of quantity x
\* unitPrice over them, and its orders counter the number of those line items.
C15_OneAggregatePerProduct ==
    libFn = "calculateProductAnalysis" =>
        LET products == libOut.products
            items == ItemsOf(libIn)
        IN  /\ \A i, j \in 1..Len(products) :
                  products[i].productId = products[j].productId => i = j
            /\ {products[i].productId : i \in 1..Len(products)}
                  = {ItemPool[items[i]].productId : i \in 1..Len(items)} \ {NULL}
            /\ \A i \in 1..Len(products) :
                  LET occ == OccurrencesOf(products[i].productId)
                  IN  /\ products[i].quantity = SumOver(occ, ItemQuantity)
                      /\ products[i].totalSales = SumOver(occ, ItemSales)
                      /\ products[i].orders = Cardinality(occ)

\* one order with two line items of the same product: one aggregate, orders = 2
C15_Witness ==
    /\ libFn = "calculateProductAnalysis"
    /\ libIn = <<1>>
    /\ Len(libOut.products) = 1
    /\ libOut.products[1].orders = 2
    /\ libOut.products[1].quantity = 3

Min(a, b) == IF a < b THEN a ELSE b

\* C16: products are ranked by descending totalSales; mostPopular is the
\* first TopN of the ranking, leastPopular the last TopN from the lowest
\* upward, each with min(TopN, number of products) entries.
C16_Ranking ==
    libFn = "calculateProductAnalysis" =>
        LET products == libOut.products
            n == Len(products)
            k == Min(TopN, n)
        IN  /\ \A i, j \in 1..n :
                  i < j => products[i].totalSales >= products[j].totalSales
            /\ Len(libOut.mostPopular) = k
            /\ Len(libOut.leastPopular) = k
            /\ \A i \in 1..k : libOut.mostPopular[i] = Listed(products[i])
            /\ \A i \in 1..k : libOut.leastPopular[i] = Listed(products[n + 1 - i])

\* more than TopN but fewer than 2 x TopN products: both lists are full and
\* share a product
C16_Witness ==
    /\ libFn = "calculateProductAnalysis"
    /\ Len(libOut.products) > TopN
    /\ Len(libOut.products) < 2 * TopN
    /\ Len(libOut.mostPopular) = TopN
    /\ \E i, j \in 1..TopN : libOut.mostPopular[i] = libOut.leastPopular[j]

\* capsules of a line item by the catalog of the call, SKUs compared without
\* regard to case
CatalogCapsules(item, bucket) ==
    LET hits == {i \in 1..Len(libIn.capsuleSKUs) :
                    /\ item.sku # NULL
                    /\ ToLowerCase(libIn.capsuleSKUs[i].SKU) = ToLowerCase(item.sku)
                    /\ libIn.capsuleSKUs[i].ProdCat \in bucket}
    IN  IF hits = {} THEN 0
        ELSE item.quantity * libIn.capsuleSKUs[CHOOSE i \in hits : TRUE].Caps

AllCapsules(item) == CatalogCapsules(item, AnyCategory)

MultiCapsules(item) ==
    CatalogCapsules(item, {"Multicapsule", "Multicapsule/ New Flavors"})

EuropeanCapsules(item) == CatalogCapsules(item, {"European"})

TeaCapsules(item) == CatalogCapsules(item, {"Tea", "Tea Capsules"})

CapsuleSum(value(_)) ==
    LET items == ItemsOf(libIn.orders)
    IN  SumSeq([i \in 1..Len(items) |-> value(ItemPool[items[i]])])

\* C17: a line item whose SKU equals a catalog SKU ignoring case contributes
\* quantity x capsuleCount to the grand total and to the Multicapsule,
\* European or Tea subtotal of its category; a missing or unmatched SKU
\* contributes nothing.
C17_CapsulesBySku ==
    (libFn \in {"calculateCapsulesSold", "utils.calculateCapsulesSold"}) =>
        /\ libOut.totalCapsules = CapsuleSum(AllCapsules)
        /\ libOut.totalMulticapsules = CapsuleSum(MultiCapsules)
        /\ libOut.totalEuropeanCapsules = CapsuleSum(EuropeanCapsules)
        /\ CapsuleSum(TeaCapsules) > 0 =>
              /\ "totalTeaCapsules" \in DOMAIN libOut
              /\ libOut.totalTeaCapsules = CapsuleSum(TeaCapsules)

\* the configured channel an id resolves to: its own, or the default
Resolve(shopTypeArg) ==
    IF shopTypeArg \in ShopIds THEN SHOP_CONFIGS[shopTypeArg]
    ELSE SHOP_CONFIGS["ecommerce"]

\* C18: getShopConfig returns the configuration registered under a
\* configured id and the ecommerce configuration for every other input (an
\* omitted id, an unknown string, names such as constructor or toString);
\* it never returns anything but a configured record.
C18_ResolveShop ==
    libFn = "getShopConfig" =>
        /\ libOut = Resolve(libIn)
        /\ \E id \in ShopIds : libOut = SHOP_CONFIGS[id]

\* C19: every query builder returns created_at >= start, created_at <= end,
\* exclude-cancelled and exclude-test, plus the channel clause exactly when
\* the resolved shop has a channel (brandstores).
C19_QueryClauses ==
    (libFn \in {"buildOrderQueryString", "server.buildOrderQueryString"}) =>
        LET base == << Clause("created_at:>=", libIn.startISO),
                       Clause("created_at:<=", libIn.endISO),
                       Clause("-cancelled_status:cancelled", <<>>),
                       Clause("-test:true", <<>>) >>
            channel == Resolve(libIn.shop).channel
        IN  libOut = IF channel # NULL
                     THEN Append(base, Clause("channel:", channel))
                     ELSE base

(***************************************************************************)
(* C21: every range the date range calculator produces (today, yesterday,  *)
(* a single day, the past n >= 0 months, the past calendar month complete  *)
(* or including the current month, an explicit range) has                  *)
(* startInstant <= endInstant, for every clock reading including the first *)
(* day of a month.                                                         *)
(***************************************************************************)
RangeCalculators ==
    {"getTodayRange", "getYesterdayRange", "getDateRange", "getHistoricalDateRange",
     "getPastMonthsDateRange", "getPastMonthCompleteRange",
     "getPastMonthIncludingCurrentRange", "validateAndParseDateRange",
     "processAllShopsDateRange"}

C21_StartNotAfterEnd ==
    (dateFn \in RangeCalculators /\ dateOut.kind = "range") =>
        DateLE(dateOut.startDate, dateOut.endDate)

(***************************************************************************)
(* C24: summarize adds to grossSales, for each order, the order's subtotal *)
(* when the subtotal is present and original total + discounts when it is  *)
(* absent; grossProfit = grossSales - totalCOGS and grossProfitMargin =     *)
(* grossProfit / grossSales x 100, with margin 0 when grossSales is 0.      *)
(* Reported amounts are compared after the rounding the function applies.  *)
(***************************************************************************)
GrossOfOrder(order) ==
    IF order.subtotalPresent THEN order.subtotal
    ELSE order.originalTotal + order.discounts

GrossSum(list) == SumSeq([i \in 1..Len(list) |-> GrossOfOrder(MetricPool[list[i]])])

ItemCost(item) == item.quantity * item.unitCost

CostSum == SumOver(DOMAIN ItemsOf(libIn), ItemCost)

C24_GrossSales ==
    /\ libFn = "ShopifyClient.calculateDetailedMetrics" =>
        /\ libOut.grossSales = MathRound2(GrossSum(libIn))
        /\ libOut.grossProfit = MathRound2(GrossSum(libIn) - CostSum)
        /\ libOut.grossProfitMargin =
              IF GrossSum(libIn) = 0 THEN 0
              ELSE MathRound2Percent(GrossSum(libIn) - CostSum, GrossSum(libIn))
    /\ libFn = "salesToday.grossSales" => libOut.grossSales = GrossSum(libIn)

(***************************************************************************)
(* C26: a line item with no product identifier creates and changes no      *)
(* product aggregate (it is in neither mostPopular nor leastPopular), yet  *)
(* its quantity is still added to the units-sold total of the summary for  *)
(* the same order list.                                                    *)
(***************************************************************************)
Unidentified == {i \in DOMAIN ItemsOf(libIn) : ItemPool[ItemsOf(libIn)[i]].productId = NULL}

Aggregated(products, value(_)) == SumSeq([i \in 1..Len(products) |-> value(products[i])])

AggregateQuantity(p) == p.quantity

AggregateOrders(p) == p.orders

C26_UnidentifiedItems ==
    libFn = "calculateSourceMetrics.productAnalysis" =>
        LET products == libOut.productAnalysis.products
            shown == {Listed(products[i]) : i \in 1..Len(products)}
            identified == DOMAIN ItemsOf(libIn) \ Unidentified
        IN  /\ \A i \in 1..Len(products) : products[i].productId # NULL
            /\ Aggregated(products, AggregateOrders) = Cardinality(identified)
            /\ Aggregated(products, AggregateQuantity) = SumOver(identified, ItemQuantity)
            /\ \A i \in 1..Len(libOut.productAnalysis.mostPopular) :
                  libOut.productAnalysis.mostPopular[i] \in shown
            /\ \A i \in 1..Len(libOut.productAnalysis.leastPopular) :
                  libOut.productAnalysis.leastPopular[i] \in shown
            /\ libOut.totalItemsSold
                  = Aggregated(products, AggregateQuantity) + SumOver(Unidentified, ItemQuantity)

\* an order with a line item of quantity 1 that has no product id
C26_Witness ==
    /\ libFn = "calculateSourceMetrics.productAnalysis"
    /\ Unidentified # {}
    /\ SumOver(Unidentified, ItemQuantity) > 0
    /\ libOut.totalItemsSold > Aggregated(libOut.productAnalysis.products, AggregateQuantity)

(***************************************************************************)
(* C27: the online and pos filters partition every order list: each order  *)
(* of a fetched list is kept by exactly one of the two filters, so in the  *)
(* by-source report posOrders + onlineOrders = totalOrders and no order is *)
(* counted in both brandStores and ecom.                                   *)
(***************************************************************************)
Members(list) == {list[i] : i \in 1..Len(list)}

C27_FiltersPartition ==
    libFn = "bySource" =>
        /\ Members(libOut.posList) \cup Members(libOut.onlineList) = Members(libIn)
        /\ Members(libOut.posList) \cap Members(libOut.onlineList) = {}
        /\ Members(ApplySourceFilter(libIn, "pos")) \cup Members(ApplySourceFilter(libIn, "online"))
              = Members(libIn)
        /\ Members(ApplySourceFilter(libIn, "pos")) \cap Members(ApplySourceFilter(libIn, "online"))
              = {}
        /\ libOut.summary.posOrders + libOut.summary.onlineOrders = libOut.summary.totalOrders
        /\ libOut.brandStores.summary.totalOrders + libOut.ecom.summary.totalOrders
              = Len(libIn)

\* a list with a pos order and an order with an unknown source tag
C27_Witness ==
    /\ libFn = "bySource"
    /\ libOut.summary.posOrders = 1
    /\ libOut.summary.onlineOrders = 1
    /\ \E i \in 1..Len(libIn) : Pool[libIn[i]].sourceName = "kiosk"

(***************************************************************************)
(* C23: a channel whose endpoint host or credential is unset is detected   *)
(* at channel resolution, before any upstream request is issued, and is    *)
(* surfaced as a configuration error with a client-error outcome, on the   *)
(* HTTP fetch path as well as on the ShopifyClient path.                   *)
(***************************************************************************)
ConfigurationError == "Missing required environment variables for shop type"

C23_UnsetChannelRejected ==
    ~Usable(shopConfig) =>
        /\ requestCount = 0
        /\ client.issued = 0
        /\ fpc = "done" =>
              /\ response.status \in 400..499
              /\ response.message = ConfigurationError
        /\ client.pc \in {"constructed", "awaiting", "returned", "threw"} =>
              /\ client.pc = "threw"
              /\ client.err = ConfigurationError

(***************************************************************************)
(* C25: the page requests of one fetch are strictly sequential and         *)
(* cursor-chained: the first request carries a null cursor, request k+1 is *)
(* issued only after the response to request k has been received and       *)
(* carries exactly the endCursor of response k, and no request is issued   *)
(* after a response with hasNextPage = false.                              *)
(***************************************************************************)
Chained(awaiting, issued, sent, w) ==
    /\ issued = w.settled + (IF awaiting THEN 1 ELSE 0)
    /\ (awaiting /\ issued = 1) => sent = NoCursor
    /\ (awaiting /\ issued > 1) =>
          /\ w.pages = issued - 1
          /\ w.hasNextPage
          /\ sent = w.endCursor

C25_SequentialAndChained ==
    /\ Chained(fpc = "awaiting", requestCount, sentCursor, wire)
    /\ Chained(client.pc = "awaiting", client.issued, client.sent, client.wire)

\* the third request of a client run, carrying the cursor of the second page
C25_Witness ==
    /\ client.pc = "awaiting"
    /\ client.issued = 3
    /\ client.wire.pages = 2
    /\ client.sent = CursorAt(1)

(***************************************************************************)
(* C28: every paginated fetch terminates for every upstream behaviour:     *)
(* whatever page responses (any hasNextPage and cursor values, a repeated  *)
(* cursor included) or errors the upstream produces, the fetch eventually  *)
(* returns an order list or throws, after a bounded number of requests.    *)
(***************************************************************************)
FetchOver ==
    \/ fpc \in {"returned", "threw", "done"}
    \/ client.pc \in {"returned", "threw"}

RequestsBounded == requestCount <= PageCap + 1 /\ client.issued <= MaxIterations

C28_FetchTerminates == []RequestsBounded /\ <>FetchOver

\* an upstream that answers every request with an empty page, the same
\* cursor and hasNextPage = true, until the route's loop is left
C28_Witness ==
    /\ fpc = "returned"
    /\ requestCount = PageCap + 1
    /\ wire.hasNextPage
    /\ wire.endCursor = CursorAt(0)
    /\ store # <<>>

(***************************************************************************)
(* C30: ShopifyClient.fetchYesterdayData issues at most 100 page requests  *)
(* (not 25), stops as soon as a response has hasNextPage = false, and      *)
(* returns every record of every fetched page without re-filtering by      *)
(* createdAt: its order count is the number of records in the pages.       *)
(***************************************************************************)
C30_ClientFetch ==
    /\ client.issued <= MaxIterations
    /\ (client.pc = "awaiting" /\ client.issued > 1) => client.wire.hasNextPage
    /\ (client.wire.pages > 0 /\ ~client.wire.hasNextPage) => client.pc = "returned"
    /\ client.pc = "returned" =>
          /\ client.result.orders = SubSeq(store, 1, client.served)
          /\ client.result.totalOrders = client.served

\* a run that stopped at the hundredth request and returns an order created
\* after the day
C30_Witness ==
    /\ client.pc = "returned"
    /\ client.issued = MaxIterations
    /\ client.issued > PageCap + 1
    /\ client.wire.hasNextPage
    /\ \E i \in 1..Len(client.result.orders) :
          ~CreatedAtInRange(client.result.orders[i], DayRange(FetchDay))


(***************************************************************************)
(* Claim C22                                                               *)
(***************************************************************************)
\* the records the upstream of an invocation has served to it
Delivered(me) == SubSeq(me.store, 1, me.served)

\* the list an invocation running alone holds after its upstream's answers
OwnOrders(me) == FilterByDate(Delivered(me), me.dateRange)

\* the answer of an invocation running alone
OwnResponse(me) ==
    IF me.fetchErr = ""
    THEN [status |-> 200, message |-> "",
          from |-> SubSeq(me.dateRange.startISO, 1, 10),
          to |-> SubSeq(me.dateRange.endISO, 1, 10),
          metrics |-> CalculateSourceMetrics(
                          ApplySourceFilter(OwnOrders(me), me.sourceFilter),
                          SourceLabel(me.sourceFilter))]
    ELSE [NoResponse EXCEPT !.status = 500, !.message = me.fetchErr]

\* C22: invocations in flight at once share no mutable state: however their
\* steps interleave at the awaits, the cursor, the request count, the order
\* list and the summary of each are what its own upstream's answers make
\* them when it runs alone: the request count is the number of its own
\* requests, the cursor the endCursor of its own last page, the list the
\* in-range records of its own pages, the summary that of its own list
C22_InvocationsIsolated ==
    \A i \in DOMAIN inv :
        LET me == inv[i]
        IN  /\ me.orders = OwnOrders(me)
            /\ me.requestCount =
                   me.wire.settled + (IF me.pc = "awaiting" THEN 1 ELSE 0)
            /\ me.cursor =
                   (IF me.wire.pages = 0 THEN NoCursor ELSE me.wire.endCursor)
            /\ me.hasNext = (IF me.wire.pages = 0 THEN TRUE ELSE me.wire.hasNextPage)
            /\ me.pc \in {"returned"} =>
                   me.finalOrders = ApplySourceFilter(OwnOrders(me), me.sourceFilter)
            /\ me.pc = "done" => me.response = OwnResponse(me)

\* two invocations are both waiting for a page after each has received some
\* of its own orders
C22_Witness ==
    /\ Len(inv) = 2
    /\ inv[1].pc = "awaiting" /\ inv[1].wire.pages >= 1 /\ inv[1].orders # <<>>
    /\ inv[2].pc = "awaiting" /\ inv[2].wire.pages >= 1 /\ inv[2].orders # <<>>
    /\ inv[1].orders # inv[2].orders


(***************************************************************************)
(* Claim C29                                                               *)
(***************************************************************************)
\* what day j of shop i threw
ThrownOn(i, j) == sweep.thrown[(i - 1) * Len(sweep.dates) + j]

\* the orders of the store created on the day of a date
OrdersOn(st, date) ==
    LET OnDay(o) == /\ DateLE(Instant(date.day, 0), Pool[o].createdAt)
                    /\ DateLE(Pool[o].createdAt, Instant(date.day, EndOfDayMs))
    IN  SelectSeq(st, OnDay)

\* the entry of a day of shop i that threw message: the metrics of the orders
\* of that day, or zero totals and the message when the day failed
EntryOf(i, dateStr, list, message) ==
    IF message = ""
    THEN HistoricalMetrics(list, sweep.sourceNames[i], dateStr)
    ELSE FailedDay(dateStr, sweep.sourceNames[i], message)

\* C29: in a multi-day sweep a failing day does not abort the sweep: the
\* days are processed one at a time in ascending date order, the result has
\* exactly one entry per enumerated date in that order, the entry of a failed
\* day has zero totals and the error message, and the entries of the other
\* days are the metrics of their own orders
C29_SweepSurvivesFailures ==
    sweep.pc \in {"awaiting", "delay", "returned"} =>
        LET n == Len(sweep.dates)
            strs == [j \in 1..n |-> DateStr(sweep.dates[j])]
            lists == [j \in 1..n |-> OrdersOn(sweep.store, sweep.dates[j])]
        IN  /\ \A j \in 1..(n - 1) :
                   sweep.dates[j].day < sweep.dates[j + 1].day
            /\ \A i \in 1..Len(sweep.results) :
                   /\ Len(sweep.results[i]) = n
                   /\ \A j \in 1..n :
                          sweep.results[i][j] =
                              EntryOf(i, strs[j], lists[j], ThrownOn(i, j))
            /\ \A j \in 1..Len(sweep.data) :
                   sweep.data[j] =
                       EntryOf(sweep.s, strs[j], lists[j], ThrownOn(sweep.s, j))
            /\ sweep.pc = "awaiting" => Len(sweep.data) = sweep.d - 1
            /\ sweep.pc = "delay" => Len(sweep.data) = sweep.d
            /\ sweep.pc # "returned" => Len(sweep.results) = sweep.s - 1
            /\ sweep.pc = "returned" =>
                   /\ Len(sweep.results) = Len(sweep.shopTypes)
                   /\ sweep.data = <<>>

\* a sweep of several days has returned; its first day failed and a later
\* day has the orders of that day
C29_Witness ==
    /\ sweep.pc = "returned"
    /\ Len(sweep.dates) >= 2
    /\ ThrownOn(1, 1) # ""
    /\ sweep.results[1][1].summary.totalOrders = 0
    /\ \E j \in 2..Len(sweep.dates) :
           /\ ThrownOn(1, j) = ""
           /\ sweep.results[1][j].summary.totalOrders > 0

====
